---- MODULE Spec2Model ----
(***************************************************************************)
(* agent-briefcase: briefcase-sync (src/src/briefcase_sync.py).            *)
(*                                                                         *)
(* The state is one target repository (its files, directories, lock file   *)
(* and .gitignore), the briefcase it reads (config/_shared and             *)
(* config/<project>, the checked-out commit), and the report of the last   *)
(* run of main() (stdout, stderr, exit code, whether the hook ran).        *)
(* File contents are small integers; 0 stands for "no file at this path".  *)
(***************************************************************************)
EXTENDS Integers, Sequences, FiniteSets, TLC

\* ------------------------------------------------------------------ bounds
\* Number of distinct file contents (1..NumContents).
NumContents == 2
\* Number of changes the environment (user, briefcase maintainer) makes.
MaxChanges == 2
\* Number of times in a row a running sync is killed (SpecCrash).
MaxKills == 1
\* Number of changes the environment makes around runs that can be killed.
MaxCrashChanges == 1
\* Length of the .gitignore files update_gitignore is first given (SpecIgnore).
MaxLines == 3
\* Number of consecutive calls of update_gitignore (SpecIgnore).
MaxUpdates == 2
\* Number of changes the environment makes between rounds of concurrent runs
\* (SpecTwo).
MaxTwoChanges == 1
\* Number of lines of a template or fragment file (SpecIncludes).
MaxLen == 2
\* Number of consecutive runs of build (SpecBuild).
MaxBuilds == 2
\* Number of entries of a files map given to write_lock (SpecLock).
MaxEntries == 2

\* --------------------------------------------------------------- constants
LOCK_FILE == ".briefcase.lock"
POST_SYNC_HOOK == ".briefcase-post-sync.sh"
MARKER_BEGIN == <<"# BEGIN briefcase-managed (do not edit this section)", "">>
MARKER_END == <<"# END briefcase-managed", "">>
CONFIG_DIR == "config"
DEFAULT_SHARED_FOLDER == "_shared"
\* project_name: args.project or the target directory's name.
PROJECT_NAME == "my-project"

NoFile == 0
Contents == 1..NumContents

\* The destination paths of the model, in the order Python's sorted() gives
\* their strings, each with its chain of parent directories (nearest first,
\* the target root "." excluded).
PathTable ==
    << [path |-> ".claude/commands/review.md",
        parents |-> <<".claude/commands", ".claude">>],
       [path |-> ".claude/settings.json", parents |-> <<".claude">>],
       [path |-> "CLAUDE.md", parents |-> <<>>] >>

Range(s) == {s[i] : i \in DOMAIN s}
Paths == {PathTable[i].path : i \in DOMAIN PathTable}
Rank(p) == CHOOSE i \in DOMAIN PathTable : PathTable[i].path = p
\* Path(p).parent, .parent.parent, ... up to but excluding Path(".").
Parents(p) == PathTable[Rank(p)].parents
Dirs == UNION {Range(Parents(p)) : p \in Paths}
\* d2 lies strictly inside directory d.
DirInside(d2, d) ==
    \E p \in Paths : \E i, j \in DOMAIN Parents(p) :
        /\ Parents(p)[i] = d2
        /\ Parents(p)[j] = d
        /\ i < j

Layers == {DEFAULT_SHARED_FOLDER, PROJECT_NAME}
EmptyTree == [p \in Paths |-> NoFile]
EmptyMap == [p \in {} |-> NoFile]
Put(f, k, v) == [x \in DOMAIN f \cup {k} |-> IF x = k THEN v ELSE f[x]]

\* sorted(S) for a set of paths.
RECURSIVE SortedFrom(_, _)
SortedFrom(S, i) ==
    IF i > Len(PathTable) THEN <<>>
    ELSE (IF PathTable[i].path \in S THEN <<PathTable[i].path>> ELSE <<>>)
         \o SortedFrom(S, i + 1)
Sorted(S) == SortedFrom(S, 1)

\* briefcase_build.py
CONFIG_SRC == "config-src"
CONFIG_OUT == "config"
INCLUDES_DIR == "_includes"

\* The relative paths of the build side, as their segments, in sorted order:
\* two fragments, a file at the top, a file named d, and a file under a nested
\* directory named as the includes directory.
BuildPathTable ==
    << <<INCLUDES_DIR, "a.md">>, <<INCLUDES_DIR, "b.md">>, <<"a.md">>, <<"d">>,
       <<"d", INCLUDES_DIR, "x.md">> >>
BuildPaths == Range(BuildPathTable)
OrdinaryPaths == {p \in BuildPaths : p[1] # INCLUDES_DIR}
\* path.parent, .parent.parent, ... below the root.
Ancestors(p) == {SubSeq(p, 1, k) : k \in 1..(Len(p) - 1)}
BuildDirs == UNION {Ancestors(p) : p \in BuildPaths}

\* ------------------------------------------------------------------- state
VARIABLES
    briefcaseDir,   \* briefcase_dir.is_dir()
    config,         \* config[layer][rel]: content of <briefcase>/config/<layer>/<rel>
    commit,         \* git rev-parse HEAD of the briefcase, "unknown" when it fails
    target,         \* target[p]: content of the file at p in the target
    dirs,           \* directories that exist in the target
    lock,           \* the lock file: <<>> when absent, else <<record>>
    gitignore,      \* .gitignore: <<>> when absent, else <<lines>>
    hook,           \* the post-sync hook file: "absent", "plain", "executable", "failing"
    stdout,         \* what the last run printed
    stderr,         \* what the last run printed on the error stream
    exitCode,       \* what the last run of main returned (-1: never ran)
    hookRuns,       \* how many times the last run invoked the hook
    lastAct,        \* "init", "env", "sync" (a run returned), "running", "killed"
    pre,            \* the target state the last run started from
    userEdited,     \* managed paths whose content is the user's latest edit
    changes,        \* environment changes made so far
    pc,             \* position of the running sync (SpecCrash), "idle" otherwise
    run,            \* local variables of the running sync (SpecCrash)
    orig,           \* target state when the killed run started (SpecCrash)
    kills,          \* kills so far (SpecCrash)
    sites,          \* sites[i]: a target of its own and the run of main in it (SpecTwo)
    includes,       \* includes[name]: the file config-src/_includes/<name>, <<>> when absent
    given,          \* the content resolve_includes is given
    resolved,       \* what the call of resolve_includes returned or raised, <<>> before
    srcDir,         \* config-src is a directory
    srcFiles,       \* srcFiles[p]: the ordinary file config-src/p, <<>> when absent
    outFiles,       \* outFiles[p]: the file config/p, <<>> when absent
    outDirs,        \* the directories under config/
    built,          \* what the last run of build did and returned, <<>> before
    builds,         \* runs of build so far
    callArgs,       \* the arguments of the call under study (SpecLock, SpecLinks)
    callResult      \* what that call left behind, <<>> before it

fsVars == <<target, dirs, lock, gitignore>>
bcVars == <<briefcaseDir, config, commit>>
reportVars == <<stdout, stderr, exitCode, hookRuns>>
callVars == <<callArgs, callResult>>
buildVars == <<includes, given, resolved, srcDir, srcFiles, outFiles, outDirs,
               built, builds, callVars>>
crashVars == <<pc, run, orig, kills, sites, buildVars>>
vars == <<briefcaseDir, config, commit, target, dirs, lock, gitignore, hook,
          stdout, stderr, exitCode, hookRuns, lastAct, pre, userEdited,
          changes, pc, run, orig, kills, sites, includes, given, resolved, srcDir, srcFiles,
          outFiles, outDirs, built, builds, callArgs, callResult>>

\* ---------------------------------------------------------------- lock store
hash_file(content) == <<"sha256", content>>

\* Mutant: an absent lock read as one that tracks every path, with no hash.
EmptyLock_TracksAll ==
    [source_commit |-> "",
     files |-> [p \in Paths |-> [sha256 |-> hash_file(NoFile),
                                 source |-> <<CONFIG_DIR, DEFAULT_SHARED_FOLDER, p>>]]]
\* {"source_commit": "", "files": {}}
EmptyLock == [source_commit |-> "", files |-> EmptyMap]
read_lock(lockFile) == IF lockFile = <<>> THEN EmptyLock ELSE lockFile[1]
write_lock(source_commit, files) ==
    <<[source_commit |-> source_commit, files |-> files]>>

\* ----------------------------------------------------------- layered collector
\* sorted(dir.rglob("*")) restricted to files, as relative paths.
LayerFiles(cfg, layer) == Sorted({p \in Paths : cfg[layer][p] # NoFile})

RECURSIVE AddLayer(_, _, _)
AddLayer(files, layer, rels) ==
    IF rels = <<>> THEN files
    ELSE AddLayer(Put(files, Head(rels), [layer |-> layer, rel |-> Head(rels)]),
                  layer, Tail(rels))

\* Mutant: the layers walked in the other order, so the shared layer wins.
collect_files_SharedWins(cfg, project_name, shared_folder) ==
    AddLayer(AddLayer(EmptyMap, project_name, LayerFiles(cfg, project_name)),
             shared_folder, LayerFiles(cfg, shared_folder))

collect_files(cfg, project_name, shared_folder) ==
    AddLayer(AddLayer(EmptyMap, shared_folder, LayerFiles(cfg, shared_folder)),
             project_name, LayerFiles(cfg, project_name))

\* src_path.relative_to(briefcase_dir)
SourceRel(src) == <<CONFIG_DIR, src.layer, src.rel>>
SourceContent(cfg, src) == cfg[src.layer][src.rel]

\* ------------------------------------------------------------------ sync engine
\* Mutant: the skipped destination gets no entry in new_files.
SkipEntry_NoEntry(st, dest_rel, src) ==
    [st EXCEPT !.stdout = Append(@, <<"SKIPPING", dest_rel>>)]

\* The branch of sync_files that skips a locally modified destination: the
\* file stays, its current hash goes into new_files, a warning is printed.
SkipEntry(st, dest_rel, src) ==
    [st EXCEPT
        !.new_files = Put(@, dest_rel, [sha256 |-> hash_file(st.target[dest_rel]),
                                        source |-> SourceRel(src)]),
        !.stdout = Append(@, <<"SKIPPING", dest_rel>>)]

\* Mutant: the copy branch records the hash of what the destination held.
CopyEntry_StaleHash(st, dest_rel, src, cfg) ==
    [st EXCEPT
        !.dirs = @ \cup Range(Parents(dest_rel)),
        !.new_files = Put(@, dest_rel, [sha256 |-> hash_file(st.target[dest_rel]),
                                        source |-> SourceRel(src)]),
        !.target[dest_rel] = SourceContent(cfg, src),
        !.stdout = Append(@, <<"synced", dest_rel>>)]

\* The branch of sync_files that copies: mkdir(parents), copy2, the source's
\* hash into new_files, "synced" printed.
CopyEntry(st, dest_rel, src, cfg) ==
    [st EXCEPT
        !.dirs = @ \cup Range(Parents(dest_rel)),
        !.target[dest_rel] = SourceContent(cfg, src),
        !.new_files = Put(@, dest_rel, [sha256 |-> hash_file(SourceContent(cfg, src)),
                                        source |-> SourceRel(src)]),
        !.stdout = Append(@, <<"synced", dest_rel>>)]

\* Mutant: no local-modification check, every destination is copied.
SyncOne_AlwaysCopy(st, dest_rel, src, old_files, cfg) ==
    CopyEntry(st, dest_rel, src, cfg)

\* Mutant: a tracked destination that exists is never updated.
SyncOne_SkipTracked(st, dest_rel, src, old_files, cfg) ==
    IF st.target[dest_rel] # NoFile /\ dest_rel \in DOMAIN old_files
    THEN SkipEntry(st, dest_rel, src)
    ELSE CopyEntry(st, dest_rel, src, cfg)

\* Mutant: a missing lock entry counts as the locked hash "", so an existing
\* untracked destination is skipped as modified.
SyncOne_SkipUntracked(st, dest_rel, src, old_files, cfg) ==
    IF /\ st.target[dest_rel] # NoFile
       /\ \/ dest_rel \notin DOMAIN old_files
          \/ hash_file(st.target[dest_rel]) # old_files[dest_rel].sha256
    THEN SkipEntry(st, dest_rel, src)
    ELSE CopyEntry(st, dest_rel, src, cfg)

\* Mutant: the hash comparison without the test that the destination exists.
SyncOne_SkipMissing(st, dest_rel, src, old_files, cfg) ==
    LET current_hash == hash_file(st.target[dest_rel])
        modified == /\ dest_rel \in DOMAIN old_files
                    /\ current_hash # old_files[dest_rel].sha256
    IN  IF modified
        THEN SkipEntry(st, dest_rel, src)
        ELSE CopyEntry(st, dest_rel, src, cfg)

\* One iteration of the loop of sync_files: st holds the target's files and
\* directories, the new_files built so far and what was printed.
SyncOne(st, dest_rel, src, old_files, cfg) ==
    LET exists == st.target[dest_rel] # NoFile
        current_hash == hash_file(st.target[dest_rel])
        modified == /\ exists
                    /\ dest_rel \in DOMAIN old_files
                    /\ current_hash # old_files[dest_rel].sha256
    IN  IF modified
        THEN SkipEntry(st, dest_rel, src)
        ELSE CopyEntry(st, dest_rel, src, cfg)

\* Mutant: the loop ends at the first locally modified destination (break
\* where the code has continue).
RECURSIVE SyncLoop_StopAtConflict(_, _, _, _, _)
SyncLoop_StopAtConflict(st, todo, files_to_sync, old_files, cfg) ==
    IF todo = <<>> THEN st
    ELSE LET nxt == SyncOne(st, Head(todo), files_to_sync[Head(todo)], old_files, cfg)
         IN  IF nxt.stdout[Len(nxt.stdout)][1] = "SKIPPING" THEN nxt
             ELSE SyncLoop_StopAtConflict(nxt, Tail(todo), files_to_sync, old_files, cfg)

RECURSIVE SyncLoop(_, _, _, _, _)
SyncLoop(st, todo, files_to_sync, old_files, cfg) ==
    IF todo = <<>> THEN st
    ELSE SyncLoop(SyncOne(st, Head(todo), files_to_sync[Head(todo)], old_files, cfg),
                  Tail(todo), files_to_sync, old_files, cfg)

sync_files(st, files_to_sync, old_lock, cfg) ==
    SyncLoop([st EXCEPT !.new_files = EmptyMap],
             Sorted(DOMAIN files_to_sync), files_to_sync, old_lock.files, cfg)

\* os.rmdir succeeds only on an existing, empty directory.
DirEmpty(st, d) ==
    /\ \A p \in Paths : d \in Range(Parents(p)) => st.target[p] = NoFile
    /\ \A d2 \in st.dirs : ~DirInside(d2, d)

\* Mutant: the parents are removed whatever they hold.
Prune_Force(st, parents) == [st EXCEPT !.dirs = @ \ Range(parents)]

\* The while loop of cleanup_removed: rmdir the parents upward until one fails.
RECURSIVE Prune(_, _)
Prune(st, parents) ==
    IF parents = <<>> THEN st
    ELSE IF Head(parents) \in st.dirs /\ DirEmpty(st, Head(parents))
         THEN Prune([st EXCEPT !.dirs = @ \ {Head(parents)}], Tail(parents))
         ELSE st

\* Mutant: cleanup with the local-modification check of sync_files: a file
\* whose hash is not the locked one is kept and reported as skipped.
CleanupOne_Protected(st, file_path, new_managed_files) ==
    IF file_path \in DOMAIN new_managed_files THEN st
    ELSE IF /\ st.target[file_path] # NoFile
            /\ hash_file(st.target[file_path])
                   # read_lock(st.lock).files[file_path].sha256
         THEN [st EXCEPT !.stdout = Append(@, <<"SKIPPING", file_path>>)]
         ELSE LET unlinked ==
                      IF st.target[file_path] # NoFile
                      THEN [st EXCEPT !.target[file_path] = NoFile,
                                      !.stdout = Append(@, <<"removed", file_path>>)]
                      ELSE st
              IN  Prune(unlinked, Parents(file_path))

\* Mutant: the membership test inverted, the paths still managed are removed.
CleanupOne_Inverted(st, file_path, new_managed_files) ==
    IF file_path \notin DOMAIN new_managed_files THEN st
    ELSE LET unlinked ==
                 IF st.target[file_path] # NoFile
                 THEN [st EXCEPT !.target[file_path] = NoFile,
                                 !.stdout = Append(@, <<"removed", file_path>>)]
                 ELSE st
         IN  Prune(unlinked, Parents(file_path))

\* One iteration of the loop of cleanup_removed.
CleanupOne(st, file_path, new_managed_files) ==
    IF file_path \in DOMAIN new_managed_files THEN st
    ELSE LET unlinked ==
                 IF st.target[file_path] # NoFile
                 THEN [st EXCEPT !.target[file_path] = NoFile,
                                 !.stdout = Append(@, <<"removed", file_path>>)]
                 ELSE st
         IN  Prune(unlinked, Parents(file_path))

RECURSIVE CleanupLoop(_, _, _)
CleanupLoop(st, todo, new_managed_files) ==
    IF todo = <<>> THEN st
    ELSE CleanupLoop(CleanupOne(st, Head(todo), new_managed_files),
                     Tail(todo), new_managed_files)

cleanup_removed(st, old_lock, new_managed_files) ==
    CleanupLoop(st, Sorted(DOMAIN old_lock.files), new_managed_files)

\* ------------------------------------------------------------------ .gitignore
PathLine(file_path) == <<"/", file_path>>
BlankLine == <<"", "">>

RECURSIVE PathLines(_)
PathLines(sortedPaths) ==
    IF sortedPaths = <<>> THEN <<>>
    ELSE <<PathLine(Head(sortedPaths))>> \o PathLines(Tail(sortedPaths))

ManagedSection(managed_files) ==
    <<MARKER_BEGIN>> \o PathLines(Sorted(DOMAIN managed_files)) \o <<MARKER_END>>

\* The index the marker scan ends with: the last line equal to the marker, 0
\* when there is none.
LastIndex(lines, marker) ==
    IF \E i \in DOMAIN lines : lines[i] = marker
    THEN CHOOSE i \in DOMAIN lines :
             /\ lines[i] = marker
             /\ \A j \in DOMAIN lines : lines[j] = marker => j <= i
    ELSE 0

\* lines[b : e + 1] = section (Python slice assignment, 1-based b and e).
SliceAssign(lines, b, e, section) ==
    SubSeq(lines, 1, b - 1) \o section
    \o SubSeq(lines, (IF e + 1 > b THEN e + 1 ELSE b), Len(lines))

\* Mutant: the existing markers are never found, the section is appended.
update_gitignore_AppendOnly(gitignoreFile, managed_files) ==
    LET lines == IF gitignoreFile = <<>> THEN <<>> ELSE gitignoreFile[1]
    IN  IF lines # <<>> /\ lines[Len(lines)] # BlankLine
        THEN <<lines \o <<BlankLine>> \o ManagedSection(managed_files)>>
        ELSE <<lines \o ManagedSection(managed_files)>>

update_gitignore(gitignoreFile, managed_files) ==
    LET lines == IF gitignoreFile = <<>> THEN <<>> ELSE gitignoreFile[1]
        managed_section == ManagedSection(managed_files)
        begin_idx == LastIndex(lines, MARKER_BEGIN)
        end_idx == LastIndex(lines, MARKER_END)
    IN  IF begin_idx # 0 /\ end_idx # 0
        THEN <<SliceAssign(lines, begin_idx, end_idx, managed_section)>>
        ELSE IF lines # <<>> /\ lines[Len(lines)] # BlankLine
             THEN <<lines \o <<BlankLine>> \o managed_section>>
             ELSE <<lines \o managed_section>>

\* --------------------------------------------------------- advisory and hook
\* How the subprocess chain of check_briefcase_staleness can end.
StalenessOutcomes ==
    {"fetch_fails", "timeout", "not_a_repo", "no_remote_ref", "up_to_date",
     "behind", "count_fails"}

\* Mutant: the warning is also printed when no remote branch is found.
check_briefcase_staleness_WarnNoRemote(outcome) ==
    IF outcome \in {"behind", "no_remote_ref"}
    THEN <<<<"WARNING", "behind">>>> ELSE <<>>

\* What check_briefcase_staleness prints on the error stream.
check_briefcase_staleness(outcome) ==
    IF outcome = "behind" THEN <<<<"WARNING", "behind">>>> ELSE <<>>

\* The states of the hook file; "failing" is an executable hook that exits
\* with a non-zero status.
HookFiles == {"absent", "plain", "executable", "failing"}

\* run_post_sync_hook: hook.exists() and os.access(hook, os.X_OK); the status
\* of subprocess.run(check=False) is dropped.
run_post_sync_hook(st, hookFile) ==
    IF hookFile \in {"executable", "failing"}
    THEN [st EXCEPT !.stdout = Append(@, <<"running", POST_SYNC_HOOK>>),
                    !.hookRuns = @ + 1]
    ELSE st

\* ------------------------------------------------------------------------ main
\* The state a run of main works on.
RunState(tgt, ds, lockFile, gitignoreFile) ==
    [target |-> tgt, dirs |-> ds, lock |-> lockFile, gitignore |-> gitignoreFile,
     new_files |-> EmptyMap, stdout |-> <<>>, stderr |-> <<>>, hookRuns |-> 0,
     exitCode |-> -1]

\* Mutant: a missing briefcase is handled like an empty one, the lock and the
\* managed section are reset.
MissingRun_ResetsLock(st) ==
    [st EXCEPT !.stderr = Append(@, <<"WARNING", "not found">>),
               !.gitignore = update_gitignore(st.gitignore, EmptyMap),
               !.lock = write_lock("unknown", EmptyMap),
               !.exitCode = 0]

\* main when briefcase_dir is not a directory: the warning and return 0.
MissingRun(st) ==
    [st EXCEPT !.stderr = Append(@, <<"WARNING", "not found">>),
               !.exitCode = 0]

\* Mutant: the empty mapping only warns and returns.
EmptyRun_WarnOnly(st, old_lock, source_commit) ==
    [st EXCEPT !.stderr = Append(@, <<"WARNING", "no files">>),
               !.exitCode = 0]

\* main when collect_files returns nothing: the warning, cleanup_removed,
\* update_gitignore and write_lock with an empty files map, return 0.
EmptyRun(st, old_lock, source_commit) ==
    LET st2 == [st EXCEPT !.stderr = Append(@, <<"WARNING", "no files">>)]
        st3 == cleanup_removed(st2, old_lock, EmptyMap)
    IN  [st3 EXCEPT !.gitignore = update_gitignore(st3.gitignore, EmptyMap),
                    !.lock = write_lock(source_commit, EmptyMap),
                    !.exitCode = 0]

\* Mutant: the hook's status is checked (check=True), a failing hook makes
\* the run end with status 1.
FullRun_HookChecked(st, files_to_sync, old_lock, cfg, source_commit, hookFile) ==
    LET st2 == sync_files(st, files_to_sync, old_lock, cfg)
        st3 == cleanup_removed(st2, old_lock, st2.new_files)
        st4 == [st3 EXCEPT
                  !.gitignore = update_gitignore(st3.gitignore, st2.new_files),
                  !.lock = write_lock(source_commit, st2.new_files)]
        st5 == run_post_sync_hook(st4, hookFile)
    IN  [st5 EXCEPT !.exitCode = IF hookFile = "failing" THEN 1 ELSE 0]

\* main when the mapping holds files.
FullRun(st, files_to_sync, old_lock, cfg, source_commit, hookFile) ==
    LET st2 == sync_files(st, files_to_sync, old_lock, cfg)
        st3 == cleanup_removed(st2, old_lock, st2.new_files)
        st4 == [st3 EXCEPT
                  !.gitignore = update_gitignore(st3.gitignore, st2.new_files),
                  !.lock = write_lock(source_commit, st2.new_files)]
        st5 == run_post_sync_hook(st4, hookFile)
    IN  [st5 EXCEPT !.exitCode = 0]

\* main(): the whole run, from the target state in st.
main(st, isDir, cfg, source_commit, hookFile, outcome) ==
    IF ~isDir
    THEN MissingRun(st)
    ELSE
      LET st1 == [st EXCEPT !.stderr = @ \o check_briefcase_staleness(outcome)]
          old_lock == read_lock(st.lock)
          files_to_sync == collect_files(cfg, PROJECT_NAME, DEFAULT_SHARED_FOLDER)
      IN  IF DOMAIN files_to_sync = {}
          THEN EmptyRun(st1, old_lock, source_commit)
          ELSE FullRun(st1, files_to_sync, old_lock, cfg, source_commit, hookFile)

\* ----------------------------------------------------------------- behaviour
Commits == {"unknown", "c1", "c2"}

\* Two target repositories next to the one of the variables above, each the
\* working directory of its own sync process (SpecTwo).
Sites == {1, 2}
IdleSite ==
    [target |-> EmptyTree, dirs |-> {}, lock |-> <<>>, gitignore |-> <<>>,
     stdout |-> <<>>, pc |-> "idle", locals |-> <<>>, start |-> <<>>]
\* The fragment files a directive can name (briefcase_build.py).
Names == {"a.md", "b.md"}

\* No build side: the sync engine reads config/ through config (bcVars).
BuildIdle ==
    /\ srcDir = FALSE
    /\ srcFiles = [p \in OrdinaryPaths |-> <<>>]
    /\ outFiles = [p \in BuildPaths |-> <<>>]
    /\ outDirs = {}
    /\ built = <<>>
    /\ builds = 0
    /\ callArgs = <<>>
    /\ callResult = <<>>

\* A new round: what the sites' last runs reported is forgotten.
Forget(site) == [site EXCEPT !.stdout = <<>>, !.start = <<>>]
UserLine == <<"", ".env">>
NoPre == <<>>

TypeOK ==
    /\ briefcaseDir \in BOOLEAN
    /\ config \in [Layers -> [Paths -> {NoFile} \cup Contents]]
    /\ commit \in Commits
    /\ target \in [Paths -> {NoFile} \cup Contents]
    /\ dirs \subseteq Dirs
    /\ hook \in HookFiles
    /\ exitCode \in {-1, 0, 1}
    /\ hookRuns \in 0..1
    /\ lastAct \in {"init", "env", "sync", "running", "killed", "ignore"}
    /\ pc \in {"idle", "sync_files", "cleanup", "update_gitignore", "write_lock"}
    /\ kills \in 0..MaxKills
    /\ DOMAIN sites = Sites
    /\ DOMAIN includes = Names
    /\ Len(resolved) <= 1
    /\ userEdited \subseteq Paths
    /\ changes \in 0..(MaxChanges + MaxUpdates)

\* The briefcases a target is first pointed at: absent, empty, or holding a
\* first version of some files in the shared layer.
Init ==
    /\ briefcaseDir \in BOOLEAN
    /\ config \in [Layers -> [Paths -> {NoFile, 1}]]
    /\ config[PROJECT_NAME] = EmptyTree
    /\ (config[DEFAULT_SHARED_FOLDER] # EmptyTree) => briefcaseDir
    /\ commit = "unknown"
    /\ target = EmptyTree
    /\ dirs = {}
    /\ lock = <<>>
    /\ gitignore = <<>>
    /\ hook = "absent"
    /\ stdout = <<>>
    /\ stderr = <<>>
    /\ exitCode = -1
    /\ hookRuns = 0
    /\ lastAct = "init"
    /\ pre = NoPre
    /\ userEdited = {}
    /\ changes = 0
    /\ pc = "idle"
    /\ run = <<>>
    /\ orig = <<>>
    /\ kills = 0
    /\ sites = [i \in Sites |-> IdleSite]
    /\ includes = [n \in Names |-> <<>>]
    /\ given = <<>>
    /\ resolved = <<>>
    /\ BuildIdle

\* What every change of the environment does to the bookkeeping.
EnvStep ==
    /\ pc = "idle"
    /\ changes < MaxChanges
    /\ changes' = changes + 1
    /\ lastAct' = "env"
    /\ pre' = NoPre
    /\ stdout' = <<>>
    /\ stderr' = <<>>
    /\ exitCode' = -1
    /\ hookRuns' = 0
    /\ (IF orig = <<>> THEN TRUE ELSE orig[1].done)
    /\ orig' = <<>>
    /\ \A i \in Sites : sites[i].pc = "idle"
    /\ sites' = [i \in Sites |-> Forget(sites[i])]
    /\ UNCHANGED <<pc, run, kills, buildVars>>

\* The briefcase maintainer writes a file into a layer of config/.
BriefcaseWrite ==
    \E l \in Layers, p \in Paths, c \in Contents :
        /\ EnvStep
        /\ config[l][p] # c
        /\ config' = [config EXCEPT ![l][p] = c]
        /\ briefcaseDir' = TRUE
        /\ UNCHANGED <<commit, fsVars, hook, userEdited>>

\* The briefcase maintainer removes a file from a layer of config/.
BriefcaseRemove ==
    \E l \in Layers, p \in Paths :
        /\ EnvStep
        /\ config[l][p] # NoFile
        /\ config' = [config EXCEPT ![l][p] = NoFile]
        /\ UNCHANGED <<briefcaseDir, commit, fsVars, hook, userEdited>>

\* The briefcase checkout moves to another commit (or becomes a repository).
BriefcaseCommit ==
    \E c \in Commits \ {commit, "unknown"} :
        /\ EnvStep
        /\ briefcaseDir
        /\ commit' = c
        /\ UNCHANGED <<briefcaseDir, config, fsVars, hook, userEdited>>

\* The briefcase directory is gone (moved, deleted, not cloned on this machine).
BriefcaseGone ==
    /\ EnvStep
    /\ briefcaseDir
    /\ briefcaseDir' = FALSE
    /\ config' = [l \in Layers |-> EmptyTree]
    /\ commit' = "unknown"
    /\ UNCHANGED <<fsVars, hook, userEdited>>

\* The managed paths as the target knows them, and their sources' contents.
Mapping == collect_files(config, PROJECT_NAME, DEFAULT_SHARED_FOLDER)
Managed == DOMAIN read_lock(lock).files

\* The user writes a file in the target.  The path counts as locally edited
\* when it is a managed destination and the new content differs from its
\* briefcase source.
UserEdit ==
    \E p \in Paths, c \in Contents :
        /\ EnvStep
        /\ target[p] # c
        /\ target' = [target EXCEPT ![p] = c]
        /\ dirs' = dirs \cup Range(Parents(p))
        /\ userEdited' =
               IF /\ p \in Managed
                  /\ p \in DOMAIN Mapping
                  /\ c # SourceContent(config, Mapping[p])
               THEN userEdited \cup {p}
               ELSE userEdited \ {p}
        /\ UNCHANGED <<bcVars, lock, gitignore, hook>>

\* The user deletes a file of the target.
UserDelete ==
    \E p \in Paths :
        /\ EnvStep
        /\ target[p] # NoFile
        /\ target' = [target EXCEPT ![p] = NoFile]
        /\ userEdited' = userEdited \ {p}
        /\ UNCHANGED <<bcVars, dirs, lock, gitignore, hook>>

\* The user appends a line of their own to .gitignore.
UserGitignore ==
    /\ EnvStep
    /\ gitignore' = <<(IF gitignore = <<>> THEN <<>> ELSE gitignore[1]) \o <<UserLine>>>>
    /\ UNCHANGED <<bcVars, target, dirs, lock, hook, userEdited>>

\* The user installs the post-sync hook, or changes its mode.
UserHook ==
    \E h \in HookFiles \ {hook} :
        /\ EnvStep
        /\ hook' = h
        /\ UNCHANGED <<bcVars, fsVars, userEdited>>

\* A whole run of main(), with the advisory ending one of the ways it can.
Main ==
    \E outcome \in StalenessOutcomes :
        /\ pc = "idle"
        /\ (outcome = "not_a_repo") <=> (commit = "unknown")
        /\ \E r \in {main(RunState(target, dirs, lock, gitignore),
                          briefcaseDir, config, commit, hook, outcome)} :
               /\ target' = r.target
               /\ dirs' = r.dirs
               /\ lock' = r.lock
               /\ gitignore' = r.gitignore
               /\ stdout' = r.stdout
               /\ stderr' = r.stderr
               /\ exitCode' = r.exitCode
               /\ hookRuns' = r.hookRuns
               /\ userEdited' = {p \in userEdited : r.target[p] = target[p]}
        /\ lastAct' = "sync"
        /\ pre' = <<[target |-> target, dirs |-> dirs, lock |-> lock,
                     gitignore |-> gitignore, userEdited |-> userEdited,
                     afterSync |-> (lastAct = "sync")]>>
        /\ UNCHANGED <<bcVars, hook, changes, crashVars>>

Next ==
    \/ BriefcaseWrite
    \/ BriefcaseRemove
    \/ BriefcaseCommit
    \/ BriefcaseGone
    \/ UserEdit
    \/ UserDelete
    \/ UserGitignore
    \/ UserHook
    \/ Main

Spec == Init /\ [][Next]_vars

\* The runs of main in a target whose user leaves the managed destinations as
\* sync wrote them: the user writes only files the lock does not track (and
\* may delete any file).
UserEditOther ==
    /\ UserEdit
    /\ \A p \in Managed : target'[p] = target[p]

NextMirror ==
    \/ BriefcaseWrite
    \/ BriefcaseRemove
    \/ BriefcaseCommit
    \/ BriefcaseGone
    \/ UserEditOther
    \/ UserDelete
    \/ UserGitignore
    \/ UserHook
    \/ Main

SpecMirror == Init /\ [][NextMirror]_vars

\* ------------------------------------------------------------- a run, by steps
\* The same run of main, one file operation at a time, so that the process
\* can be killed between two of them.  pc names the operation that comes
\* next; run holds main's locals; the target's files are the variables.
NoRun == <<>>
Locals == run[1]

\* The files of the target as a run sees them, with its new_files and output.
Here ==
    [RunState(target, dirs, lock, gitignore) EXCEPT
        !.new_files = IF run = NoRun THEN EmptyMap ELSE Locals.new_files,
        !.stdout = stdout, !.stderr = stderr, !.hookRuns = hookRuns]

\* The target state a (re)run is measured against: the one the first run of
\* the series started from.
Snapshot ==
    IF (IF orig = <<>> THEN TRUE ELSE orig[1].done)
    THEN [target |-> target, dirs |-> dirs, lock |-> lock, gitignore |-> gitignore,
          killed |-> FALSE, done |-> FALSE]
    ELSE orig[1]

\* The paths cleanup_removed acts on.
CleanupTodo(old_lock, new_files) ==
    Sorted({p \in DOMAIN old_lock.files : p \notin DOMAIN new_files})

\* main up to the first file operation: the directory test, the advisory,
\* read_lock, get_briefcase_commit, collect_files.
Start ==
    \E outcome \in StalenessOutcomes :
        /\ pc = "idle"
        /\ (outcome = "not_a_repo") <=> (commit = "unknown")
        /\ pre' = NoPre
        /\ stdout' = <<>>
        /\ hookRuns' = 0
        /\ IF ~briefcaseDir
           THEN /\ stderr' = <<<<"WARNING", "not found">>>>
                /\ exitCode' = 0
                /\ lastAct' = "sync"
                /\ orig' = <<[Snapshot EXCEPT !.done = TRUE]>>
                /\ UNCHANGED <<pc, run>>
           ELSE \E files_to_sync \in {collect_files(config, PROJECT_NAME,
                                                    DEFAULT_SHARED_FOLDER)} :
                  /\ stderr' = check_briefcase_staleness(outcome)
                               \o (IF DOMAIN files_to_sync = {}
                                   THEN <<<<"WARNING", "no files">>>> ELSE <<>>)
                  /\ exitCode' = -1
                  /\ lastAct' = "running"
                  /\ orig' = <<Snapshot>>
                  /\ run' = <<[old_lock |-> read_lock(lock),
                               source_commit |-> commit,
                               files_to_sync |-> files_to_sync,
                               new_files |-> EmptyMap,
                               todo |-> IF DOMAIN files_to_sync = {}
                                        THEN CleanupTodo(read_lock(lock), EmptyMap)
                                        ELSE Sorted(DOMAIN files_to_sync)]>>
                  /\ pc' = IF DOMAIN files_to_sync # {} THEN "sync_files"
                           ELSE IF CleanupTodo(read_lock(lock), EmptyMap) # <<>>
                                THEN "cleanup" ELSE "update_gitignore"
        /\ UNCHANGED <<bcVars, fsVars, hook, userEdited, changes, kills, sites,
                       buildVars>>

\* One iteration of the loop of sync_files.
StepSync ==
    /\ pc = "sync_files"
    /\ \E st \in {SyncOne(Here, Head(Locals.todo),
                          Locals.files_to_sync[Head(Locals.todo)],
                          Locals.old_lock.files, config)} :
         /\ target' = st.target
         /\ dirs' = st.dirs
         /\ stdout' = st.stdout
         /\ IF Tail(Locals.todo) # <<>>
            THEN /\ run' = <<[Locals EXCEPT !.new_files = st.new_files,
                                            !.todo = Tail(@)]>>
                 /\ pc' = "sync_files"
            ELSE /\ run' = <<[Locals EXCEPT
                                !.new_files = st.new_files,
                                !.todo = CleanupTodo(Locals.old_lock, st.new_files)]>>
                 /\ pc' = IF CleanupTodo(Locals.old_lock, st.new_files) # <<>>
                          THEN "cleanup" ELSE "update_gitignore"
    /\ UNCHANGED <<bcVars, lock, gitignore, hook, stderr, exitCode, hookRuns,
                   lastAct, pre, userEdited, changes, orig, kills, sites,
                   buildVars>>

\* One iteration of the loop of cleanup_removed.
StepCleanup ==
    /\ pc = "cleanup"
    /\ \E st \in {CleanupOne(Here, Head(Locals.todo), Locals.new_files)} :
         /\ target' = st.target
         /\ dirs' = st.dirs
         /\ stdout' = st.stdout
    /\ run' = <<[Locals EXCEPT !.todo = Tail(@)]>>
    /\ pc' = IF Tail(Locals.todo) # <<>> THEN "cleanup" ELSE "update_gitignore"
    /\ UNCHANGED <<bcVars, lock, gitignore, hook, stderr, exitCode, hookRuns,
                   lastAct, pre, userEdited, changes, orig, kills, sites,
                   buildVars>>

StepGitignore ==
    /\ pc = "update_gitignore"
    /\ gitignore' = update_gitignore(gitignore, Locals.new_files)
    /\ pc' = "write_lock"
    /\ UNCHANGED <<bcVars, target, dirs, lock, hook, reportVars, lastAct, pre,
                   userEdited, changes, run, orig, kills, sites, buildVars>>

\* write_lock, then the hook (when the mapping was not empty) and return 0.
StepWriteLock ==
    /\ pc = "write_lock"
    /\ lock' = write_lock(Locals.source_commit, Locals.new_files)
    /\ \E st \in {IF DOMAIN Locals.files_to_sync = {} THEN Here
                  ELSE run_post_sync_hook(Here, hook)} :
         /\ stdout' = st.stdout
         /\ hookRuns' = st.hookRuns
    /\ exitCode' = 0
    /\ lastAct' = "sync"
    /\ pc' = "idle"
    /\ run' = NoRun
    /\ orig' = <<[orig[1] EXCEPT !.done = TRUE]>>
    /\ kills' = 0
    /\ UNCHANGED <<bcVars, target, dirs, gitignore, hook, stderr, pre,
                   userEdited, changes, sites, buildVars>>

\* The process is killed before the operation pc names.
Kill ==
    /\ pc \in {"sync_files", "cleanup", "update_gitignore", "write_lock"}
    /\ kills < MaxKills
    /\ kills' = kills + 1
    /\ pc' = "idle"
    /\ run' = NoRun
    /\ orig' = <<[orig[1] EXCEPT !.killed = TRUE]>>
    /\ lastAct' = "killed"
    /\ UNCHANGED <<bcVars, fsVars, hook, reportVars, pre, userEdited, changes,
                   sites, buildVars>>

\* The environment of SpecCrash acts between series of runs, not inside one.
CrashEnv == changes < MaxCrashChanges

NextCrash ==
    \/ CrashEnv /\ BriefcaseWrite
    \/ CrashEnv /\ BriefcaseRemove
    \/ CrashEnv /\ BriefcaseCommit
    \/ CrashEnv /\ BriefcaseGone
    \/ CrashEnv /\ UserEdit
    \/ CrashEnv /\ UserDelete
    \/ CrashEnv /\ UserGitignore
    \/ CrashEnv /\ UserHook
    \/ Start
    \/ StepSync
    \/ StepCleanup
    \/ StepGitignore
    \/ StepWriteLock
    \/ Kill

SpecCrash == Init /\ [][NextCrash]_vars

\* ------------------------------------------------- update_gitignore on any file
\* update_gitignore called on whatever .gitignore the user keeps: lines of
\* their own, blank lines, and lines that read like the markers or like a
\* managed path, in any order.
IgnoreAlphabet ==
    {UserLine, BlankLine, MARKER_BEGIN, MARKER_END, PathLine("CLAUDE.md")}
IgnoreFiles ==
    {<<>>} \cup {<<lines>> : lines \in UNION {[1..n -> IgnoreAlphabet] : n \in 0..MaxLines}}

\* A files map with the keys of S, as update_gitignore receives it.
FilesMap(S) ==
    [p \in S |-> [sha256 |-> hash_file(1),
                  source |-> SourceRel([layer |-> DEFAULT_SHARED_FOLDER, rel |-> p])]]

InitIgnore ==
    /\ briefcaseDir = TRUE
    /\ config = [l \in Layers |-> EmptyTree]
    /\ commit = "unknown"
    /\ target = EmptyTree
    /\ dirs = {}
    /\ lock = <<>>
    /\ gitignore \in IgnoreFiles
    /\ hook = "absent"
    /\ stdout = <<>>
    /\ stderr = <<>>
    /\ exitCode = -1
    /\ hookRuns = 0
    /\ lastAct = "init"
    /\ pre = NoPre
    /\ userEdited = {}
    /\ changes = 0
    /\ pc = "idle"
    /\ run = <<>>
    /\ orig = <<>>
    /\ kills = 0
    /\ sites = [i \in Sites |-> IdleSite]
    /\ includes = [n \in Names |-> <<>>]
    /\ given = <<>>
    /\ resolved = <<>>
    /\ BuildIdle

\* One call of update_gitignore(managed_files); pre keeps the file it read,
\* the keys it was given and whether the call before was given the same.
UpdateGitignore ==
    \E S \in SUBSET Paths :
        /\ changes < MaxUpdates
        /\ changes' = changes + 1
        /\ gitignore' = update_gitignore(gitignore, FilesMap(S))
        /\ pre' = <<[gitignore |-> gitignore, managed |-> S,
                     rerun |-> IF pre = NoPre THEN FALSE ELSE pre[1].managed = S]>>
        /\ lastAct' = "ignore"
        /\ UNCHANGED <<bcVars, target, dirs, lock, hook, reportVars, userEdited,
                       crashVars>>

NextIgnore == UpdateGitignore

SpecIgnore == InitIgnore /\ [][NextIgnore]_vars

\* ------------------------------------------- two targets, one briefcase
\* Two sync processes, each in its own target directory, read the same
\* briefcase; their file operations interleave.  Every path main writes is
\* relative to the process's working directory.
singleVars == <<fsVars, hook, reportVars, pre, userEdited, pc, run, orig, kills,
                buildVars>>

\* Mutant: every process resolves .briefcase.lock in the first target.
LockSite_Shared(i) == 1

\* The target whose .briefcase.lock the process running in target i resolves.
LockSite(i) == i

\* The files a run in target i works on, with its new_files and output.
SiteHere(i) ==
    [RunState(sites[i].target, sites[i].dirs, sites[LockSite(i)].lock,
              sites[i].gitignore) EXCEPT
        !.new_files = IF sites[i].locals = <<>> THEN EmptyMap
                      ELSE sites[i].locals[1].new_files,
        !.stdout = sites[i].stdout]

\* Whether the process in another target is in the middle of its run.
OtherRunning(i) == \E j \in Sites \ {i} : sites[j].pc # "idle"

\* A run in target i starts (once per round): main up to collect_files.
SiteStart(i) ==
    /\ sites[i].pc = "idle"
    /\ sites[i].start = <<>>
    /\ \E files_to_sync \in {collect_files(config, PROJECT_NAME, DEFAULT_SHARED_FOLDER)},
          old_lock \in {read_lock(sites[LockSite(i)].lock)} :
         sites' =
           [j \in Sites |->
              IF j # i
              THEN IF sites[j].pc # "idle"
                   THEN [sites[j] EXCEPT !.start[1].overlapped = TRUE]
                   ELSE sites[j]
              ELSE [sites[i] EXCEPT
                     !.start = <<[target |-> sites[i].target, dirs |-> sites[i].dirs,
                                  lock |-> sites[i].lock,
                                  gitignore |-> sites[i].gitignore,
                                  config |-> config, commit |-> commit,
                                  overlapped |-> OtherRunning(i)]>>,
                     !.stdout = <<>>,
                     !.locals = IF ~briefcaseDir THEN <<>>
                                ELSE <<[old_lock |-> old_lock,
                                        source_commit |-> commit,
                                        files_to_sync |-> files_to_sync,
                                        new_files |-> EmptyMap,
                                        todo |-> IF DOMAIN files_to_sync = {}
                                                 THEN CleanupTodo(old_lock, EmptyMap)
                                                 ELSE Sorted(DOMAIN files_to_sync)]>>,
                     !.pc = IF ~briefcaseDir THEN "idle"
                            ELSE IF DOMAIN files_to_sync # {} THEN "sync_files"
                            ELSE IF CleanupTodo(old_lock, EmptyMap) # <<>>
                                 THEN "cleanup" ELSE "update_gitignore"]]
    /\ UNCHANGED <<bcVars, singleVars, lastAct, changes>>

\* One iteration of the loop of sync_files in target i.
SiteStepSync(i) ==
    /\ sites[i].pc = "sync_files"
    /\ \E L \in {sites[i].locals[1]} :
       \E st \in {SyncOne(SiteHere(i), Head(L.todo), L.files_to_sync[Head(L.todo)],
                          L.old_lock.files, config)} :
       \E todo \in {IF Tail(L.todo) # <<>> THEN Tail(L.todo)
                    ELSE CleanupTodo(L.old_lock, st.new_files)} :
         sites' = [sites EXCEPT
                     ![i].target = st.target,
                     ![i].dirs = st.dirs,
                     ![i].stdout = st.stdout,
                     ![i].locals = <<[L EXCEPT !.new_files = st.new_files,
                                               !.todo = todo]>>,
                     ![i].pc = IF Tail(L.todo) # <<>> THEN "sync_files"
                               ELSE IF todo # <<>> THEN "cleanup"
                               ELSE "update_gitignore"]
    /\ UNCHANGED <<bcVars, singleVars, lastAct, changes>>

\* One iteration of the loop of cleanup_removed in target i.
SiteStepCleanup(i) ==
    /\ sites[i].pc = "cleanup"
    /\ \E L \in {sites[i].locals[1]} :
       \E st \in {CleanupOne(SiteHere(i), Head(L.todo), L.new_files)} :
         sites' = [sites EXCEPT
                     ![i].target = st.target,
                     ![i].dirs = st.dirs,
                     ![i].stdout = st.stdout,
                     ![i].locals = <<[L EXCEPT !.todo = Tail(@)]>>,
                     ![i].pc = IF Tail(L.todo) # <<>> THEN "cleanup"
                               ELSE "update_gitignore"]
    /\ UNCHANGED <<bcVars, singleVars, lastAct, changes>>

\* update_gitignore in target i.
SiteStepGitignore(i) ==
    /\ sites[i].pc = "update_gitignore"
    /\ sites' = [sites EXCEPT
                   ![i].gitignore = update_gitignore(@, sites[i].locals[1].new_files),
                   ![i].pc = "write_lock"]
    /\ UNCHANGED <<bcVars, singleVars, lastAct, changes>>

\* write_lock by the process in target i, and its return.
SiteStepWriteLock(i) ==
    /\ sites[i].pc = "write_lock"
    /\ \E L \in {sites[i].locals[1]} :
         sites' = [[sites EXCEPT ![LockSite(i)].lock =
                                     write_lock(L.source_commit, L.new_files)]
                   EXCEPT ![i].pc = "idle", ![i].locals = <<>>]
    /\ UNCHANGED <<bcVars, singleVars, lastAct, changes>>

\* A round is over: the runs of both targets have returned.
RoundOver == \A j \in Sites : sites[j].pc = "idle" /\ sites[j].start # <<>>

\* The user of target i writes a file there, between two rounds.
SiteEdit(i) ==
    \E p \in Paths, c \in Contents :
        /\ changes < MaxTwoChanges
        /\ RoundOver
        /\ sites[i].target[p] # c
        /\ sites' = [j \in Sites |->
                       IF j # i THEN Forget(sites[j])
                       ELSE [Forget(sites[i]) EXCEPT
                               !.target[p] = c,
                               !.dirs = @ \cup Range(Parents(p))]]
        /\ changes' = changes + 1
        /\ lastAct' = "env"
        /\ UNCHANGED <<bcVars, singleVars>>

\* The briefcase changes between two rounds, not during one.
TwoEnv == changes < MaxTwoChanges /\ RoundOver

NextTwo ==
    \/ TwoEnv /\ BriefcaseWrite
    \/ TwoEnv /\ BriefcaseRemove
    \/ \E i \in Sites : SiteEdit(i)
    \/ \E i \in Sites : SiteStart(i)
    \/ \E i \in Sites : SiteStepSync(i)
    \/ \E i \in Sites : SiteStepCleanup(i)
    \/ \E i \in Sites : SiteStepGitignore(i)
    \/ \E i \in Sites : SiteStepWriteLock(i)

SpecTwo == Init /\ [][NextTwo]_vars

\* --------------------------------------------------------- include resolver
\* briefcase_build.py. A content is its lines (content.split("\n")), so that
\* substituting a whole-line match by a fragment's content is a splice of the
\* fragment's lines. A line is <<kind, what, shape>>: a line of text,
\* <<"text", t, "">>, or a line holding the marker {{include what}}:
\*   "plain"     {{include what}}          "trailing"  {{include what}} + blanks
\*   "indented"  blanks + {{include what}} "inline"    text + {{include what}}
Texts == {"t1", "t2"}
TextLine(t) == <<"text", t, "">>
MarkerLine(name, shape) == <<"marker", name, shape>>

\* Mutant: the pattern without its anchors, found anywhere in a line.
INCLUDE_RE_Unanchored(line) == line[1] = "marker"

\* INCLUDE_RE = ^\{\{include\s+(.+?)\}\}[ \t]*$ with re.MULTILINE: the marker
\* opens the line, and only blanks may follow it.
INCLUDE_RE(line) == line[1] = "marker" /\ line[3] \in {"plain", "trailing"}

Raised(kind, message, reads) ==
    [status |-> kind, text |-> <<>>, message |-> message, reads |-> reads]

\* Mutant: the message of a cycle without the repeated name that closes it.
CycleError_OpenChain(chain, filename) == Raised("ValueError", chain, <<>>)

\* cycle = " -> ".join([*_chain, filename]); raise ValueError(...)
CycleError(chain, filename) == Raised("ValueError", Append(chain, filename), <<>>)

\* Mutant: a fragment that is not there is taken as an empty one.
MissingError_Empty(filename) ==
    [status |-> "ok", text |-> <<>>, message |-> <<>>, reads |-> <<>>]

\* raise FileNotFoundError(f"include file not found: {filename}")
MissingError(filename) == Raised("FileNotFoundError", <<filename>>, <<>>)

RECURSIVE resolve_includes(_, _, _)
RECURSIVE sub(_, _, _, _)

\* replacer(match): the cycle check, then the is_file check, then the
\* fragment read and resolved with the chain extended by its name.
replacer(line, includes_dir, chain) ==
    LET filename == line[2]
    IN  IF filename \in Range(chain) THEN CycleError(chain, filename)
        ELSE IF includes_dir[filename] = <<>> THEN MissingError(filename)
        ELSE LET r == resolve_includes(includes_dir[filename][1], includes_dir,
                                       Append(chain, filename))
             IN  [r EXCEPT !.reads = <<filename>> \o @]

\* Mutant: one record of the fragments seen for the whole call in place of
\* the chain of the call stack: a name resolved in an earlier match is taken
\* for an ancestor in the later ones.
sub_SharedSeen(lines, includes_dir, chain, acc) ==
    IF lines = <<>> THEN acc
    ELSE IF ~INCLUDE_RE(Head(lines))
    THEN sub(Tail(lines), includes_dir, chain,
             [acc EXCEPT !.text = Append(@, Head(lines))])
    ELSE LET r == replacer(Head(lines), includes_dir, chain)
         IN  IF r.status # "ok"
             THEN Raised(r.status, r.message, acc.reads \o r.reads)
             ELSE sub(Tail(lines), includes_dir, chain \o r.reads,
                      [acc EXCEPT !.text = @ \o r.text, !.reads = @ \o r.reads])

\* INCLUDE_RE.sub(replacer, content): the matches from left to right, the
\* first exception ends the call.
sub(lines, includes_dir, chain, acc) ==
    IF lines = <<>> THEN acc
    ELSE IF ~INCLUDE_RE(Head(lines))
    THEN sub(Tail(lines), includes_dir, chain,
             [acc EXCEPT !.text = Append(@, Head(lines))])
    ELSE LET r == replacer(Head(lines), includes_dir, chain)
         IN  IF r.status # "ok"
             THEN Raised(r.status, r.message, acc.reads \o r.reads)
             ELSE sub(Tail(lines), includes_dir, chain,
                      [acc EXCEPT !.text = @ \o r.text, !.reads = @ \o r.reads])

resolve_includes(content, includes_dir, chain) ==
    sub(content, includes_dir, chain,
        [status |-> "ok", text |-> <<>>, message |-> <<>>, reads |-> <<>>])

\* Sequences of 1..n elements of S.
RECURSIVE SeqsUpTo(_, _)
SeqsUpTo(S, n) ==
    IF n = 0 THEN {}
    ELSE LET shorter == SeqsUpTo(S, n - 1)
         IN  {<<x>> : x \in S} \cup shorter
             \cup {Append(s, x) : s \in shorter, x \in S}

\* The lines of a fragment, and the lines of the content given to the call.
FragmentLines == {TextLine("t1")} \cup {MarkerLine(n, "plain") : n \in Names}
GivenLines ==
    {TextLine(t) : t \in Texts}
    \cup {MarkerLine(n, "plain") : n \in Names}
    \cup {MarkerLine("a.md", s) : s \in {"trailing", "indented", "inline"}}
Fragments == {<<>>} \cup {<<c>> : c \in SeqsUpTo(FragmentLines, MaxLen)}

InitIncludes ==
    /\ briefcaseDir = TRUE
    /\ config = [l \in Layers |-> EmptyTree]
    /\ commit = "unknown"
    /\ target = EmptyTree
    /\ dirs = {}
    /\ lock = <<>>
    /\ gitignore = <<>>
    /\ hook = "absent"
    /\ stdout = <<>>
    /\ stderr = <<>>
    /\ exitCode = -1
    /\ hookRuns = 0
    /\ lastAct = "init"
    /\ pre = NoPre
    /\ userEdited = {}
    /\ changes = 0
    /\ pc = "idle"
    /\ run = <<>>
    /\ orig = <<>>
    /\ kills = 0
    /\ sites = [i \in Sites |-> IdleSite]
    /\ includes \in [Names -> Fragments]
    /\ given \in SeqsUpTo(GivenLines, MaxLen)
    /\ resolved = <<>>
    /\ BuildIdle

\* One call resolve_includes(content, includes_dir), as build makes it.
ResolveIncludes ==
    /\ resolved = <<>>
    /\ resolved' = <<resolve_includes(given, includes, <<>>)>>
    /\ UNCHANGED <<bcVars, fsVars, hook, reportVars, lastAct, pre, userEdited,
                   changes, pc, run, orig, kills, sites, includes, given,
                   srcDir, srcFiles, outFiles, outDirs, built, builds, callVars>>

NextIncludes == ResolveIncludes

SpecIncludes == InitIncludes /\ [][NextIncludes]_vars

\* ------------------------------------------------------------- build engine
\* briefcase_build.py. A file of the output tree is <<eol, text>>: its line
\* terminator and its lines. A source file or fragment is the text read_text
\* gives for it.
\* Path.read_text(): text mode with universal newlines, "\r\n" reads as "\n".
read_text(file) == file[2]
\* Path.write_text(): text mode, "\n" written as os.linesep (POSIX).
write_text(text) == <<"lf", text>>

BuildSorted(S) == SelectSeq(BuildPathTable, LAMBDA p : p \in S)
Front(p) == SubSeq(p, 1, Len(p) - 1)
IsUnder(d, p) == Len(d) < Len(p) /\ SubSeq(p, 1, Len(d)) = d

\* The files src_root.rglob("*") finds: the ordinary files and the fragments.
SourceListing(src, inc) ==
    {p \in OrdinaryPaths : src[p] # <<>>}
    \cup {<<INCLUDES_DIR, n>> : n \in {m \in Names : inc[m] # <<>>}}

\* Mutant: nothing is skipped, fragments are sources like the others.
UnderIncludes_Never(rel) == FALSE

\* rel.parts[0] == INCLUDES_DIR
UnderIncludes(rel) == rel[1] = INCLUDES_DIR

\* src_files, as its keys.
src_files(src, inc) == {p \in SourceListing(src, inc) : ~UnderIncludes(p)}

\* src_path.read_text()
SourceText(src, inc, rel) ==
    IF rel[1] = INCLUDES_DIR THEN inc[rel[2]][1] ELSE src[rel][1]

\* What build holds while it runs: the output tree, its locals, what it
\* printed, and the exception that ended it, if any.
BuildStart(files, ds) ==
    [files |-> files, dirs |-> ds, changed |-> FALSE, written_paths |-> {},
     log |-> <<>>, status |-> "running", message |-> <<>>,
     written |-> {}, removed |-> {}]

\* Mutant: the output file is written whether or not it is up to date.
UpToDate_Never(acc, rel, text) == FALSE

\* Mutant: an output file that is there is taken as up to date.
UpToDate_Exists(acc, rel, text) == acc.files[rel] # <<>>

\* existed and dest.read_text() == resolved
UpToDate(acc, rel, text) ==
    acc.files[rel] # <<>> /\ read_text(acc.files[rel][1]) = text

\* The body of the loop over sorted(src_files.items()), to the end of the loop
\* or to the first exception: of resolve_includes, of mkdir where a file is in
\* the way of a directory, of write_text where a directory is in the way.
RECURSIVE ProcessLoop(_, _, _, _)
ProcessLoop(acc, todo, src, inc) ==
    IF todo = <<>> THEN acc
    ELSE LET rel == Head(todo)
             seen == [acc EXCEPT !.written_paths = @ \cup {rel}]
             r == resolve_includes(SourceText(src, inc, rel), inc, <<>>)
         IN  IF r.status # "ok"
             THEN [seen EXCEPT !.status = r.status, !.message = r.message]
             ELSE IF UpToDate(acc, rel, r.text)
             THEN ProcessLoop([seen EXCEPT !.log = Append(@, <<"unchanged", rel>>)],
                              Tail(todo), src, inc)
             ELSE IF \E a \in Ancestors(rel) \cap BuildPaths : acc.files[a] # <<>>
             THEN [seen EXCEPT !.status = "OSError"]
             ELSE IF rel \in acc.dirs
             THEN [seen EXCEPT !.status = "OSError",
                               !.dirs = @ \cup Ancestors(rel)]
             ELSE ProcessLoop(
                    [seen EXCEPT
                        !.dirs = @ \cup Ancestors(rel),
                        !.files = [@ EXCEPT ![rel] = <<write_text(r.text)>>],
                        !.log = Append(@, <<IF acc.files[rel] # <<>>
                                            THEN "updated" ELSE "created", rel>>),
                        !.written = @ \cup {rel},
                        !.changed = TRUE],
                    Tail(todo), src, inc)

\* parent.rmdir() succeeds on an empty directory.
BuildDirEmpty(files, ds, d) ==
    /\ \A p \in BuildPaths : IsUnder(d, p) => files[p] = <<>>
    /\ \A e \in ds : ~IsUnder(d, e)

\* while parent != out_root: try parent.rmdir() except OSError: break
RECURSIVE BuildPrune(_, _, _)
BuildPrune(files, ds, parent) ==
    IF parent = <<>> THEN ds
    ELSE IF BuildDirEmpty(files, ds, parent)
    THEN BuildPrune(files, ds \ {parent}, Front(parent))
    ELSE ds

\* Mutant: the test of the stale scan turned round.
IsStale_Written(acc, rel) == rel \in acc.written_paths

\* rel_str not in written_paths
IsStale(acc, rel) == rel \notin acc.written_paths

\* The loop over sorted(out_root.rglob("*")).
RECURSIVE RemoveLoop(_, _)
RemoveLoop(acc, todo) ==
    IF todo = <<>> THEN acc
    ELSE LET rel == Head(todo)
         IN  IF acc.files[rel] = <<>> \/ ~IsStale(acc, rel)
             THEN RemoveLoop(acc, Tail(todo))
             ELSE LET files == [acc.files EXCEPT ![rel] = <<>>]
                  IN  RemoveLoop(
                        [acc EXCEPT
                            !.files = files,
                            !.dirs = BuildPrune(files, @, Front(rel)),
                            !.log = Append(@, <<"removed", rel>>),
                            !.removed = @ \cup {rel},
                            !.changed = TRUE],
                        Tail(todo))

\* What git answers in the briefcase: rev-parse --git-dir succeeds, fails, or
\* git is not installed; the paths diff --name-only and ls-files --others print.
GitStates ==
    {[rev_parse |-> r, diff |-> {}, others |-> {}] : r \in {"ok", "fails", "no_git"}}
    \cup {[rev_parse |-> "ok", diff |-> {<<"a.md">>}, others |-> {}],
          [rev_parse |-> "ok", diff |-> {}, others |-> {<<"d">>}]}

check_unstaged_config(git) ==
    IF git.rev_parse # "ok" THEN {} ELSE git.diff \cup git.others

Outcome(acc, status, verdict, probe) ==
    [files |-> acc.files, dirs |-> acc.dirs, status |-> status,
     message |-> acc.message, verdict |-> verdict, log |-> acc.log,
     written |-> acc.written, removed |-> acc.removed,
     written_paths |-> acc.written_paths, probe |-> probe]

\* Mutant: the probe is asked before the changed flag is looked at.
Verdict_ProbeFirst(acc, git) ==
    IF check_unstaged_config(git) # {} \/ acc.changed
    THEN Outcome(acc, "returned", 1, <<git>>)
    ELSE Outcome(acc, "returned", 0, <<git>>)

\* if changed: return 1; unstaged = check_unstaged_config(...); return 1 or 0
Verdict(acc, git) ==
    IF acc.changed THEN Outcome(acc, "returned", 1, <<>>)
    ELSE IF check_unstaged_config(git) # {}
    THEN Outcome(acc, "returned", 1, <<git>>)
    ELSE Outcome(acc, "returned", 0, <<git>>)

\* Mutant: without config-src the output tree is emptied as stale.
NoSource_Clears(acc) ==
    Outcome(RemoveLoop(acc, BuildSorted(BuildPaths)), "returned", 0, <<>>)

\* if not src_root.is_dir(): print(...); return 0
NoSource(acc) ==
    Outcome([acc EXCEPT !.log = <<<<"nothing to build", <<>>>>>>], "returned", 0, <<>>)

\* Mutant: a content error is caught, the source skipped and the build goes on.
Failed_GoesOn(acc, git) == Verdict(RemoveLoop(acc, BuildSorted(BuildPaths)), git)

\* The exception leaves build: nothing more is done.
Failed(acc, git) == Outcome(acc, acc.status, -1, <<>>)

build(isDir, src, inc, files, ds, git) ==
    IF ~isDir THEN NoSource(BuildStart(files, ds))
    ELSE LET done == ProcessLoop(BuildStart(files, ds),
                                 BuildSorted(src_files(src, inc)), src, inc)
         IN  IF done.status # "running" THEN Failed(done, git)
             ELSE Verdict(RemoveLoop(done, BuildSorted(BuildPaths)), git)

\* The trees build can find.
SrcTexts == {<<TextLine("t1")>>, <<MarkerLine("a.md", "plain")>>}
BuildFragments ==
    {<<>>, <<<<TextLine("t1")>>>>, <<<<MarkerLine("b.md", "plain")>>>>}
OutContents ==
    {<<"lf", <<TextLine("t1")>>>>, <<"crlf", <<TextLine("t1")>>>>,
     <<"lf", <<TextLine("t2")>>>>}

\* A tree of files and directories: a file's ancestors are directories, a
\* directory's too, and no path is both.
IsTree(files, ds) ==
    /\ \A p \in DOMAIN files : files[p] # <<>> =>
        /\ Ancestors(p) \subseteq ds
        /\ p \notin ds
    /\ \A d \in ds : Ancestors(d) \subseteq ds

InitBuild ==
    /\ briefcaseDir = TRUE
    /\ config = [l \in Layers |-> EmptyTree]
    /\ commit = "unknown"
    /\ target = EmptyTree
    /\ dirs = {}
    /\ lock = <<>>
    /\ gitignore = <<>>
    /\ hook = "absent"
    /\ stdout = <<>>
    /\ stderr = <<>>
    /\ exitCode = -1
    /\ hookRuns = 0
    /\ lastAct = "init"
    /\ pre = NoPre
    /\ userEdited = {}
    /\ changes = 0
    /\ pc = "idle"
    /\ run = <<>>
    /\ orig = <<>>
    /\ kills = 0
    /\ sites = [i \in Sites |-> IdleSite]
    /\ given = <<>>
    /\ resolved = <<>>
    /\ srcDir \in BOOLEAN
    /\ srcFiles \in [OrdinaryPaths -> {<<>>} \cup {<<t>> : t \in SrcTexts}]
    /\ \A p, q \in OrdinaryPaths :
        (srcFiles[p] # <<>> /\ srcFiles[q] # <<>>) => ~IsUnder(p, q)
    /\ includes \in [Names -> BuildFragments]
    /\ srcDir = FALSE =>
        /\ \A p \in OrdinaryPaths : srcFiles[p] = <<>>
        /\ \A n \in Names : includes[n] = <<>>
    /\ outFiles \in [BuildPaths -> {<<>>} \cup {<<c>> : c \in OutContents}]
    /\ outFiles[<<INCLUDES_DIR, "b.md">>] = <<>>
    /\ outDirs \in SUBSET BuildDirs
    /\ IsTree(outFiles, outDirs)
    /\ built = <<>>
    /\ builds = 0
    /\ callArgs = <<>>
    /\ callResult = <<>>

\* One run of build in the briefcase, with what git would answer.
Build ==
    /\ builds < MaxBuilds
    /\ builds' = builds + 1
    /\ \E git \in GitStates :
        \E r \in {build(srcDir, srcFiles, includes, outFiles, outDirs, git)} :
            /\ outFiles' = r.files
            /\ outDirs' = r.dirs
            /\ built' = <<[status |-> r.status, message |-> r.message,
                           verdict |-> r.verdict, log |-> r.log,
                           written |-> r.written, removed |-> r.removed,
                           written_paths |-> r.written_paths, probe |-> r.probe,
                           before |-> [files |-> outFiles, dirs |-> outDirs],
                           rerun |-> IF built = <<>> THEN FALSE
                                     ELSE built[1].status = "returned"]>>
    /\ UNCHANGED <<bcVars, fsVars, hook, reportVars, lastAct, pre, userEdited,
                   changes, pc, run, orig, kills, sites, includes, given,
                   resolved, srcDir, srcFiles, callVars>>

NextBuild == Build

SpecBuild == InitBuild /\ [][NextBuild]_vars

\* ------------------------------------------------------------- the lock file
\* briefcase_sync.py, write_lock down to the bytes written. A dict is the
\* sequence of its items <<key, value>> in insertion order; a value is a
\* string, <<"s", v>>, or a dict, <<"d", items>>. The text json.dump writes
\* with indent=2 is a sequence of lines <<depth, tokens>>.
Str(v) == <<"s", v>>
Dict(items) == <<"d", items>>

\* The keys of a lock file in the order Python compares strings.
KeyTable ==
    <<".claude/commands/review.md", ".claude/settings.json", "CLAUDE.md",
      "files", "sha256", "source", "source_commit">>
KeyRank(k) == CHOOSE i \in DOMAIN KeyTable : KeyTable[i] = k

\* sorted(dct.items())
RECURSIVE SortKeysFrom(_, _)
SortKeysFrom(items, i) ==
    IF i > Len(KeyTable) THEN <<>>
    ELSE SelectSeq(items, LAMBDA it : it[1] = KeyTable[i])
         \o SortKeysFrom(items, i + 1)
SortKeys(items) == SortKeysFrom(items, 1)

RECURSIVE Encode(_, _, _)
RECURSIVE EncodeItems(_, _, _)
\* json's encoder with an indent: a string on one line; an empty dict as {};
\* another dict as {, its items one level deeper, and }.
Encode(value, depth, sort_keys) ==
    IF value[1] = "s" THEN << <<depth, <<value[2]>>>> >>
    ELSE IF value[2] = <<>> THEN << <<depth, <<"{}">>>> >>
    ELSE << <<depth, <<"{">>>> >>
         \o EncodeItems(IF sort_keys THEN SortKeys(value[2]) ELSE value[2],
                        depth + 1, sort_keys)
         \o << <<depth, <<"}">>>> >>
\* "key": in front of the value's first line, "," after the last line of every
\* item but the last.
EncodeItems(items, depth, sort_keys) ==
    IF items = <<>> THEN <<>>
    ELSE LET enc == Encode(items[1][2], depth, sort_keys)
             keyed == [enc EXCEPT ![1] = <<depth, <<items[1][1], ":">> \o enc[1][2]>>]
             closed == IF Len(items) > 1
                       THEN [keyed EXCEPT ![Len(keyed)] = <<@[1], Append(@[2], ",")>>]
                       ELSE keyed
         IN  closed \o EncodeItems(Tail(items), depth, sort_keys)

\* Mutant: the keys written in insertion order.
json_dump_Unsorted(data) == Encode(data, 0, FALSE)

\* json.dump(data, f, indent=2, sort_keys=True)
json_dump(data) == Encode(data, 0, TRUE)

\* The bytes write_lock leaves in the lock file: the dump of
\* {"source_commit": source_commit, "files": files}, then "\n".
write_lock_bytes(source_commit, files) ==
    [text |-> json_dump(Dict(<< <<"source_commit", Str(source_commit)>>,
                                <<"files", Dict(files)>> >>)),
     newline |-> TRUE]

\* The files maps write_lock is given: up to MaxEntries destinations in any
\* order of insertion. sync_files builds an entry as sha256 then source; the
\* other order is what a caller of write_lock may equally pass.
Hashes == {"h1", "h2"}
SyncEntries ==
    {<<p, Dict(<< <<"sha256", Str(h)>>, <<"source", Str("config/_shared")>> >>)>> :
        p \in Paths, h \in Hashes}
LockEntries ==
    SyncEntries
    \cup {<<p, Dict(<< <<"source", Str("config/_shared")>>, <<"sha256", Str(h)>> >>)>> :
        p \in Paths, h \in Hashes}
DictKeys(items) == {items[i][1] : i \in DOMAIN items}
RECURSIVE FilesDicts(_, _)
FilesDicts(entries, n) ==
    IF n = 0 THEN {<<>>}
    ELSE LET shorter == FilesDicts(entries, n - 1)
         IN  shorter \cup {Append(d, e) : d \in shorter,
                               e \in entries}

InitLock ==
    /\ briefcaseDir = TRUE
    /\ config = [l \in Layers |-> EmptyTree]
    /\ commit = "unknown"
    /\ target = EmptyTree
    /\ dirs = {}
    /\ lock = <<>>
    /\ gitignore = <<>>
    /\ hook = "absent"
    /\ stdout = <<>>
    /\ stderr = <<>>
    /\ exitCode = -1
    /\ hookRuns = 0
    /\ lastAct = "init"
    /\ pre = NoPre
    /\ userEdited = {}
    /\ changes = 0
    /\ pc = "idle"
    /\ run = <<>>
    /\ orig = <<>>
    /\ kills = 0
    /\ sites = [i \in Sites |-> IdleSite]
    /\ includes = [n \in Names |-> <<>>]
    /\ given = <<>>
    /\ resolved = <<>>
    /\ srcDir = FALSE
    /\ srcFiles = [p \in OrdinaryPaths |-> <<>>]
    /\ outFiles = [p \in BuildPaths |-> <<>>]
    /\ outDirs = {}
    /\ built = <<>>
    /\ builds = 0
    /\ \E a \in FilesDicts(SyncEntries, MaxEntries),
          b \in FilesDicts(LockEntries, MaxEntries) :
        \E c \in {"c1", "c2"} :
            /\ Cardinality(DictKeys(a)) = Len(a)
            /\ Cardinality(DictKeys(b)) = Len(b)
            /\ callArgs = [first |-> [source_commit |-> "c1", files |-> a],
                           second |-> [source_commit |-> c, files |-> b]]
    /\ callResult = <<>>

\* Two calls of write_lock, each on a lock file of its own.
WriteLock ==
    /\ callResult = <<>>
    /\ callResult' =
        <<[first |-> write_lock_bytes(callArgs.first.source_commit,
                                      callArgs.first.files),
           second |-> write_lock_bytes(callArgs.second.source_commit,
                                       callArgs.second.files)]>>
    /\ UNCHANGED <<bcVars, fsVars, hook, reportVars, lastAct, pre, userEdited,
                   changes, pc, run, orig, kills, sites, includes, given,
                   resolved, srcDir, srcFiles, outFiles, outDirs, built, builds,
                   callArgs>>

NextLock == WriteLock

SpecLock == InitLock /\ [][NextLock]_vars

\* ------------------------------------------------------------ symbolic links
\* briefcase_sync.py, sync_files on one destination, with the file system down
\* to its symbolic links. A tree maps a path to what is there: nothing, a file
\* with its content, or a link with the path it names.
Absent == [kind |-> "absent", content |-> NoFile, to |-> ""]
PlainFile(c) == [kind |-> "file", content |-> c, to |-> ""]
LinkTo(p) == [kind |-> "link", content |-> NoFile, to |-> p]

\* The destination and a file of the user's in the target; the source and a
\* file elsewhere in the briefcase.
DestRel == "CLAUDE.md"
UserFile == "mine.md"
SrcPath == "config/_shared/CLAUDE.md"
ElsewherePath == "docs/CLAUDE.md"

\* Where open() lands: a link is followed to the path it names.
FollowLink(tree, p) == IF tree[p].kind = "link" THEN tree[p].to ELSE p
\* Path.exists() and Path.is_file(): false for a link that names nothing.
path_exists(tree, p) == tree[FollowLink(tree, p)].kind = "file"
\* Path.read_bytes()
read_bytes(tree, p) == tree[FollowLink(tree, p)].content

\* shutil.copy2(src_path, dest) with the data read from src_path: the
\* destination is opened for writing, through a link when it is one.
copy2(tree, data, p) == [tree EXCEPT ![FollowLink(tree, p)] = PlainFile(data)]

\* The body of the loop of sync_files for DestRel.
sync_one(briefcase, tree, old_files) ==
    LET new_hash == hash_file(read_bytes(briefcase, SrcPath))
        skip == /\ path_exists(tree, DestRel)
                /\ old_files # <<>>
                /\ hash_file(read_bytes(tree, DestRel)) # old_files[1]
    IN  IF skip
        THEN [target |-> tree,
              sha256 |-> hash_file(read_bytes(tree, DestRel)),
              printed |-> "SKIPPING"]
        ELSE [target |-> copy2(tree, read_bytes(briefcase, SrcPath), DestRel),
              sha256 |-> new_hash,
              printed |-> "synced"]

\* The briefcases collect_files finds the source in: a file, or a link to a
\* file. The targets: the destination absent, a file, or a link to the user's
\* file, which may be there or not; the lock with or without an entry.
LinkBriefcases ==
    {[p \in {SrcPath, ElsewherePath} |->
         IF p = SrcPath THEN PlainFile(c) ELSE Absent] : c \in Contents}
    \cup {[p \in {SrcPath, ElsewherePath} |->
         IF p = SrcPath THEN LinkTo(ElsewherePath) ELSE PlainFile(c)] : c \in Contents}
LinkTargets ==
    {[p \in {DestRel, UserFile} |-> IF p = DestRel THEN d ELSE u] :
        d \in {Absent, LinkTo(UserFile)} \cup {PlainFile(c) : c \in Contents},
        u \in {Absent} \cup {PlainFile(c) : c \in Contents}}
LinkLocks == {<<>>} \cup {<<hash_file(c)>> : c \in Contents}

InitLinks ==
    /\ briefcaseDir = TRUE
    /\ config = [l \in Layers |-> EmptyTree]
    /\ commit = "unknown"
    /\ target = EmptyTree
    /\ dirs = {}
    /\ lock = <<>>
    /\ gitignore = <<>>
    /\ hook = "absent"
    /\ stdout = <<>>
    /\ stderr = <<>>
    /\ exitCode = -1
    /\ hookRuns = 0
    /\ lastAct = "init"
    /\ pre = NoPre
    /\ userEdited = {}
    /\ changes = 0
    /\ pc = "idle"
    /\ run = <<>>
    /\ orig = <<>>
    /\ kills = 0
    /\ sites = [i \in Sites |-> IdleSite]
    /\ includes = [n \in Names |-> <<>>]
    /\ given = <<>>
    /\ resolved = <<>>
    /\ srcDir = FALSE
    /\ srcFiles = [p \in OrdinaryPaths |-> <<>>]
    /\ outFiles = [p \in BuildPaths |-> <<>>]
    /\ outDirs = {}
    /\ built = <<>>
    /\ builds = 0
    /\ \E bc \in LinkBriefcases, tree \in LinkTargets, old_files \in LinkLocks :
           callArgs = [briefcase |-> bc, target |-> tree, old_files |-> old_files]
    /\ callResult = <<>>

\* sync_files on the one destination.
SyncLinks ==
    /\ callResult = <<>>
    /\ callResult' = <<sync_one(callArgs.briefcase, callArgs.target,
                                callArgs.old_files)>>
    /\ UNCHANGED <<bcVars, fsVars, hook, reportVars, lastAct, pre, userEdited,
                   changes, pc, run, orig, kills, sites, includes, given,
                   resolved, srcDir, srcFiles, outFiles, outDirs, built, builds,
                   callArgs>>

NextLinks == SyncLinks

SpecLinks == InitLinks /\ [][NextLinks]_vars

\* ------------------------------------------------- resolve_includes, by steps
\* The same call, one match or one line at a time. The call stack of
\* resolve_includes is a sequence of frames, the first for the given content
\* and one more for each fragment being resolved, each with the lines
\* INCLUDE_RE.sub has still to go through; _chain is the names of the
\* fragments' frames. callResult holds the stack and what was produced so far.
Frame(name, todo) == [name |-> name, todo |-> todo]
Machine == callResult[1]
Top == Machine.stack[Len(Machine.stack)]
Chain == [i \in 1..(Len(Machine.stack) - 1) |-> Machine.stack[i + 1].name]
Running == callResult # <<>> /\ Machine.status = "running"
AtMatch == Running /\ Top.todo # <<>> /\ INCLUDE_RE(Head(Top.todo))
Advanced == [Machine.stack EXCEPT ![Len(Machine.stack)].todo = Tail(@)]
\* All the variables but callResult: a step of the call changes none of them.
callFrame == <<bcVars, fsVars, hook, reportVars, lastAct, pre, userEdited,
               changes, pc, run, orig, kills, sites, includes, given,
               resolved, srcDir, srcFiles, outFiles, outDirs, built, builds,
               callArgs>>

\* Mutant: the name is compared with the fragment being resolved only, not
\* with all of its ancestors.
Cyclic_ParentOnly(chain, filename) ==
    chain # <<>> /\ filename = chain[Len(chain)]

\* if filename in _chain
Cyclic(chain, filename) == filename \in Range(chain)

\* resolve_includes(content, includes_dir) is called.
Call ==
    /\ callResult = <<>>
    /\ callResult' = <<[stack |-> <<Frame("", given)>>, status |-> "running",
                        text |-> <<>>, message |-> <<>>]>>
    /\ UNCHANGED callFrame

\* sub copies a line the pattern does not match.
CopyLine ==
    /\ Running
    /\ Top.todo # <<>>
    /\ ~INCLUDE_RE(Head(Top.todo))
    /\ callResult' = <<[Machine EXCEPT !.stack = Advanced,
                                       !.text = Append(@, Head(Top.todo))]>>
    /\ UNCHANGED callFrame

\* replacer finds the name in _chain and raises.
RaiseCycle ==
    /\ AtMatch
    /\ Cyclic(Chain, Head(Top.todo)[2])
    /\ callResult' = <<[Machine EXCEPT
                           !.status = "ValueError",
                           !.text = <<>>,
                           !.message = CycleError(Chain, Head(Top.todo)[2]).message]>>
    /\ UNCHANGED callFrame

\* replacer finds no such fragment file and raises.
RaiseMissing ==
    /\ AtMatch
    /\ ~Cyclic(Chain, Head(Top.todo)[2])
    /\ includes[Head(Top.todo)[2]] = <<>>
    /\ callResult' = <<[Machine EXCEPT
                           !.status = "FileNotFoundError",
                           !.text = <<>>,
                           !.message = MissingError(Head(Top.todo)[2]).message]>>
    /\ UNCHANGED callFrame

\* replacer reads the fragment and calls resolve_includes on it, the chain
\* extended by its name.
Enter ==
    /\ AtMatch
    /\ ~Cyclic(Chain, Head(Top.todo)[2])
    /\ includes[Head(Top.todo)[2]] # <<>>
    /\ callResult' = <<[Machine EXCEPT
                           !.stack = Append(Advanced,
                                            Frame(Head(Top.todo)[2],
                                                  includes[Head(Top.todo)[2]][1]))]>>
    /\ UNCHANGED callFrame

\* sub is through with a content: the call for it returns, the outermost one
\* to the caller.
Return ==
    /\ Running
    /\ Top.todo = <<>>
    /\ callResult' = <<[Machine EXCEPT
                           !.stack = SubSeq(@, 1, Len(@) - 1),
                           !.status = IF Len(Machine.stack) = 1 THEN "ok" ELSE @]>>
    /\ UNCHANGED callFrame

NextResolve ==
    \/ Call
    \/ CopyLine
    \/ RaiseCycle
    \/ RaiseMissing
    \/ Enter
    \/ Return

\* The contents given are made of the lines fragments are made of: a line of
\* text and the directives the pattern matches.
InitResolve ==
    /\ InitIncludes
    /\ Range(given) \subseteq FragmentLines

\* The interpreter runs the call without pause until it returns or raises.
SpecResolve == InitResolve /\ [][NextResolve]_vars /\ WF_vars(NextResolve)

\* ------------------------------------------------------- what the claims read
\* The last step was a run of main, which started from the target state Pre.
AfterSync == lastAct = "sync" /\ pre # NoPre
Pre == pre[1]
\* That run reached an existing briefcase directory.
RanSync == AfterSync /\ briefcaseDir
PreLockFiles == read_lock(Pre.lock).files
LockFiles == read_lock(lock).files
Source(p) == SourceContent(config, Mapping[p])
Printed(msg) == \E i \in DOMAIN stdout : stdout[i] = msg

\* What the run found at p when it started.
PreExists(p) == Pre.target[p] # NoFile
PreLocked(p) == p \in DOMAIN PreLockFiles
PreModified(p) ==
    PreExists(p) /\ PreLocked(p) /\ hash_file(Pre.target[p]) # PreLockFiles[p].sha256
PreUnmodified(p) ==
    PreExists(p) /\ PreLocked(p) /\ hash_file(Pre.target[p]) = PreLockFiles[p].sha256

\* The lines of .gitignore, and "the file holds one managed section, which
\* lists exactly the paths of S, sorted".
GitignoreLines == IF gitignore = <<>> THEN <<>> ELSE gitignore[1]
IsMarker(line) == line = MARKER_BEGIN \/ line = MARKER_END
SectionIs(lines, S) ==
    \E b, e \in DOMAIN lines :
        /\ b < e
        /\ lines[b] = MARKER_BEGIN
        /\ lines[e] = MARKER_END
        /\ \A i \in DOMAIN lines : IsMarker(lines[i]) => i \in {b, e}
        /\ SubSeq(lines, b + 1, e - 1) = PathLines(Sorted(S))
InSection(lines, p) ==
    \E b, i, e \in DOMAIN lines :
        /\ b < i /\ i < e
        /\ lines[b] = MARKER_BEGIN
        /\ lines[e] = MARKER_END
        /\ lines[i] = PathLine(p)

\* C1: a destination in the mapping that exists in the target with a lock
\* entry whose hash differs from its current hash is left as it was by the
\* run, and the run prints "SKIPPING <path> (locally modified)".
C1_ConflictProtection ==
    RanSync =>
        \A p \in DOMAIN Mapping :
            PreModified(p) =>
                /\ target[p] = Pre.target[p]
                /\ Printed(<<"SKIPPING", p>>)

\* The run skipped a locally modified file whose content differs from what the
\* briefcase source holds.
C1_Witness ==
    /\ RanSync
    /\ \E p \in DOMAIN Mapping :
           /\ PreModified(p)
           /\ Source(p) # Pre.target[p]
           /\ target[p] = Pre.target[p]

\* C2: once a managed destination holds a local edit that differs from the
\* briefcase source, no later run of sync changes it (as long as it stays in
\* the mapping and the user does not edit it again).
C2_LocalEditNeverOverwritten ==
    RanSync =>
        \A p \in Pre.userEdited :
            p \in DOMAIN Mapping => target[p] = Pre.target[p]

\* C3: a run of sync that follows a run of sync, with no change to the
\* briefcase or the target in between, leaves the target's files, the lock's
\* files map and .gitignore as the first run left them.
C3_SyncIdempotent ==
    (AfterSync /\ Pre.afterSync) =>
        /\ target = Pre.target
        /\ LockFiles = PreLockFiles
        /\ gitignore = Pre.gitignore

\* C4: a destination in the mapping that exists in the target with a lock
\* entry whose hash equals its current hash is overwritten with the briefcase
\* source, the new lock entry holds the source's hash, and "synced" is printed.
C4_UnmodifiedFollowsBriefcase ==
    RanSync =>
        \A p \in DOMAIN Mapping :
            PreUnmodified(p) =>
                /\ target[p] = Source(p)
                /\ p \in DOMAIN LockFiles
                /\ LockFiles[p].sha256 = hash_file(Source(p))
                /\ Printed(<<"synced", p>>)

\* The run updated an unmodified managed file whose source had changed.
C4_Witness ==
    /\ RanSync
    /\ \E p \in DOMAIN Mapping :
           /\ PreUnmodified(p)
           /\ Source(p) # Pre.target[p]
           /\ target[p] = Source(p)

\* C5: every path of the previous lock record that is not in the new managed
\* set has no file in the target after the run (the run prints "removed" when
\* it deleted one), is not listed in the managed section of .gitignore and has
\* no entry in the lock written; a path of the new managed set is not deleted.
C5_Cleanup ==
    RanSync =>
        /\ \A p \in DOMAIN PreLockFiles \ DOMAIN Mapping :
               /\ target[p] = NoFile
               /\ PreExists(p) => Printed(<<"removed", p>>)
               /\ ~InSection(GitignoreLines, p)
               /\ p \notin DOMAIN LockFiles
        /\ \A p \in DOMAIN Mapping :
               /\ target[p] # NoFile
               /\ ~Printed(<<"removed", p>>)

\* The run deleted a file whose source had left the briefcase, and kept another.
C5_Witness ==
    /\ RanSync
    /\ \E p \in DOMAIN PreLockFiles \ DOMAIN Mapping :
           /\ PreExists(p)
           /\ InSection(Pre.gitignore[1], p)
           /\ target[p] = NoFile
    /\ \E q \in DOMAIN Mapping : PreLocked(q)

\* C6: the keys of the merged mapping are exactly the relative paths of the
\* files of the shared and the project subtree, each with one source, which
\* is the project layer's file whenever the project layer has the path; what a
\* run copies to such a destination is the project layer's content.
C6_Layering ==
    /\ DOMAIN Mapping = {p \in Paths : \E l \in Layers : config[l][p] # NoFile}
    /\ \A p \in DOMAIN Mapping :
           /\ Mapping[p].rel = p
           /\ Mapping[p].layer = (IF config[PROJECT_NAME][p] # NoFile
                                  THEN PROJECT_NAME ELSE DEFAULT_SHARED_FOLDER)
    /\ RanSync =>
           \A p \in Paths :
               (/\ config[PROJECT_NAME][p] # NoFile
                /\ config[DEFAULT_SHARED_FOLDER][p] # NoFile
                /\ Printed(<<"synced", p>>))
               => target[p] = config[PROJECT_NAME][p]

\* The run copied a path that both layers hold, with different contents.
C6_Witness ==
    /\ RanSync
    /\ \E p \in Paths :
           /\ config[PROJECT_NAME][p] # NoFile
           /\ config[DEFAULT_SHARED_FOLDER][p] # NoFile
           /\ config[PROJECT_NAME][p] # config[DEFAULT_SHARED_FOLDER][p]
           /\ Printed(<<"synced", p>>)
           /\ target[p] = config[PROJECT_NAME][p]

C8_UntrackedOverwritten ==
    RanSync =>
        \A p \in DOMAIN Mapping :
            (PreExists(p) /\ ~PreLocked(p)) =>
                /\ target[p] = Source(p)
                /\ p \in DOMAIN LockFiles
                /\ LockFiles[p].sha256 = hash_file(Source(p))
                /\ ~Printed(<<"SKIPPING", p>>)

\* The run overwrote a file the user had put at a path that then became managed.
C8_Witness ==
    /\ RanSync
    /\ \E p \in DOMAIN Mapping :
           /\ PreExists(p)
           /\ ~PreLocked(p)
           /\ Pre.target[p] # Source(p)
           /\ target[p] = Source(p)

\* A run by steps has returned; Reference is what one run of main makes of
\* the target state the series of runs started from.
Returned == pc = "idle" /\ lastAct = "sync" /\ orig # <<>> /\ orig[1].done
Reference ==
    main(RunState(orig[1].target, orig[1].dirs, orig[1].lock, orig[1].gitignore),
         briefcaseDir, config, commit, hook, "up_to_date")

\* C9: when a run was killed before its lock write (between two iterations of
\* the copy or the removal loop, before or after the update of .gitignore) and
\* sync was then run again to its end with the briefcase and the target left
\* alone, the target's files, .gitignore and the lock record are those of one
\* uninterrupted run from the state the killed run started from.
C9_CrashRecovery ==
    (Returned /\ orig[1].killed) =>
        /\ target = Reference.target
        /\ gitignore = Reference.gitignore
        /\ lock = Reference.lock

\* The killed run had already replaced a managed file; the run after it
\* found the new content under the old lock and skipped the file.
C9_Witness ==
    /\ Returned
    /\ orig[1].killed
    /\ \E p \in Paths :
           /\ Printed(<<"SKIPPING", p>>)
           /\ orig[1].target[p] # NoFile
           /\ orig[1].target[p] # target[p]
           /\ target[p] = Source(p)

\* C10: a run that skips a locally modified destination still copies every
\* other destination of the mapping, still deletes every previously managed
\* destination that left the mapping, still rewrites the managed section and
\* the lock record, and returns 0.
C10_ConflictDoesNotStopSync ==
    (RanSync /\ \E q \in DOMAIN Mapping : PreModified(q)) =>
        /\ \A p \in DOMAIN Mapping :
               ~PreModified(p) =>
                   /\ target[p] = Source(p)
                   /\ Printed(<<"synced", p>>)
        /\ \A p \in DOMAIN PreLockFiles \ DOMAIN Mapping : target[p] = NoFile
        /\ SectionIs(GitignoreLines, DOMAIN Mapping)
        /\ lock # <<>>
        /\ lock[1].source_commit = commit
        /\ DOMAIN LockFiles = DOMAIN Mapping
        /\ \A p \in DOMAIN Mapping : LockFiles[p].sha256 = hash_file(target[p])
        /\ exitCode = 0

\* One run skipped a destination, copied another and deleted a third.
C10_Witness ==
    /\ RanSync
    /\ exitCode = 0
    /\ \E q, p \in DOMAIN Mapping :
           /\ PreModified(q)
           /\ Printed(<<"SKIPPING", q>>)
           /\ p # q
           /\ Printed(<<"synced", p>>)
    /\ \E r \in DOMAIN PreLockFiles \ DOMAIN Mapping :
           /\ PreExists(r)
           /\ Printed(<<"removed", r>>)

\* The target state the last run started from, as main takes it.
PreState == RunState(Pre.target, Pre.dirs, Pre.lock, Pre.gitignore)
Warned(msg) == \E i \in DOMAIN stderr : stderr[i] = msg

\* C11: when the briefcase directory does not exist, a run prints the
\* "not found" warning on the error stream and nothing else, returns 0, and
\* leaves the target's files and directories, .gitignore and the lock file as
\* they were; whatever the advisory would have said and whatever the hook file
\* is, no advisory warning is printed and the hook is not invoked.
C11_MissingBriefcaseNoOp ==
    (AfterSync /\ ~briefcaseDir) =>
        /\ stderr = <<<<"WARNING", "not found">>>>
        /\ stdout = <<>>
        /\ exitCode = 0
        /\ hookRuns = 0
        /\ target = Pre.target
        /\ dirs = Pre.dirs
        /\ lock = Pre.lock
        /\ gitignore = Pre.gitignore
        /\ \A o \in StalenessOutcomes, h \in HookFiles :
               main(PreState, FALSE, config, commit, h, o)
                   = [PreState EXCEPT !.stderr = <<<<"WARNING", "not found">>>>,
                                      !.exitCode = 0]

\* The briefcase went away from under a target that holds managed files, a
\* lock record and an executable hook; the run touched none of them.
C11_Witness ==
    /\ AfterSync
    /\ ~briefcaseDir
    /\ exitCode = 0
    /\ hook = "executable"
    /\ lock # <<>>
    /\ \E p \in DOMAIN LockFiles : target[p] # NoFile

\* C12: when the briefcase directory exists and the merged mapping is empty,
\* a run prints the "no files" warning, leaves no file at any path of the
\* previous lock record, leaves a managed section without paths in
\* .gitignore, writes a lock record with an empty files map, and returns 0.
C12_EmptyMappingConverges ==
    (RanSync /\ DOMAIN Mapping = {}) =>
        /\ Warned(<<"WARNING", "no files">>)
        /\ \A p \in DOMAIN PreLockFiles :
               /\ target[p] = NoFile
               /\ PreExists(p) => Printed(<<"removed", p>>)
        /\ SectionIs(GitignoreLines, {})
        /\ lock = write_lock(commit, EmptyMap)
        /\ exitCode = 0

\* The briefcase lost its last file; the run deleted a managed file that the
\* previous lock and managed section listed.
C12_Witness ==
    /\ RanSync
    /\ DOMAIN Mapping = {}
    /\ exitCode = 0
    /\ \E p \in DOMAIN PreLockFiles :
           /\ PreExists(p)
           /\ InSection(Pre.gitignore[1], p)
           /\ target[p] = NoFile

\* The lines of an error stream other than the advisory's warning.
OtherWarnings(err) == SelectSeq(err, LAMBDA w : w # <<"WARNING", "behind">>)

\* C13: whatever way the advisory's subprocess chain ends (fetch fails, times
\* out, no repository, no remote branch, up to date, behind, the count
\* fails), a run from the same state copies, skips and removes the same
\* files, leaves the same .gitignore and lock record, prints the same lines
\* and returns 0; the "behind" warning is printed exactly when every step of
\* the chain succeeded and HEAD differs from the remote branch.
C13_AdvisoryNeverAffectsSync ==
    AfterSync =>
        /\ exitCode = 0
        /\ \A o \in StalenessOutcomes :
               \E r \in {main(PreState, briefcaseDir, config, commit, hook, o)} :
                   /\ r.target = target
                   /\ r.dirs = dirs
                   /\ r.gitignore = gitignore
                   /\ r.lock = lock
                   /\ r.stdout = stdout
                   /\ r.hookRuns = hookRuns
                   /\ r.exitCode = 0
                   /\ OtherWarnings(r.stderr) = OtherWarnings(stderr)
                   /\ (\E i \in DOMAIN r.stderr : r.stderr[i] = <<"WARNING", "behind">>)
                          <=> (briefcaseDir /\ o = "behind")

\* A run that printed the "behind" warning copied one file, skipped another
\* and wrote the lock.
C13_Witness ==
    /\ RanSync
    /\ Warned(<<"WARNING", "behind">>)
    /\ exitCode = 0
    /\ \E p, q \in DOMAIN Mapping :
           /\ Printed(<<"synced", p>>)
           /\ Printed(<<"SKIPPING", q>>)
    /\ DOMAIN LockFiles = DOMAIN Mapping

SiteReturned(i) == sites[i].pc = "idle" /\ sites[i].start # <<>>
SiteAlone(i) ==
    main(RunState(sites[i].start[1].target, sites[i].start[1].dirs,
                  sites[i].start[1].lock, sites[i].start[1].gitignore),
         briefcaseDir, sites[i].start[1].config, sites[i].start[1].commit,
         "absent", "up_to_date")

IgnoreUpdated == lastAct = "ignore"
OldLines == IF pre[1].gitignore = <<>> THEN <<>> ELSE pre[1].gitignore[1]
OldBegin == LastIndex(OldLines, MARKER_BEGIN)
OldEnd == LastIndex(OldLines, MARKER_END)

\* C14: a call of update_gitignore keeps the lines before the begin marker
\* and after the end marker as they were and in their order; when the file
\* has no marker pair the file's lines are kept and the section is appended
\* at the end; and a call that follows a call with the same managed paths
\* leaves the file as it found it.
C14_IgnoreOutsidePreserved ==
    IgnoreUpdated =>
        /\ (OldBegin # 0 /\ OldEnd # 0 /\ OldBegin < OldEnd) =>
               /\ SubSeq(GitignoreLines, 1, OldBegin - 1)
                      = SubSeq(OldLines, 1, OldBegin - 1)
               /\ SubSeq(GitignoreLines,
                         Len(GitignoreLines) - (Len(OldLines) - OldEnd) + 1,
                         Len(GitignoreLines))
                      = SubSeq(OldLines, OldEnd + 1, Len(OldLines))
        /\ (OldBegin = 0 \/ OldEnd = 0) =>
               /\ SubSeq(GitignoreLines, 1, Len(OldLines)) = OldLines
               /\ \E k \in 1..Len(GitignoreLines) :
                      SubSeq(GitignoreLines, k, Len(GitignoreLines))
                          = ManagedSection(FilesMap(pre[1].managed))
        /\ pre[1].rerun => GitignoreLines = OldLines

\* ------------------------------------------------------------------ includes
Resolved == resolved # <<>>
Result == resolved[1]

\* The fragments a content's matched lines name, and those a fragment names.
Refs(lines) == {l[2] : l \in {x \in Range(lines) : INCLUDE_RE(x)}}
Includes(n) == IF includes[n] = <<>> THEN {} ELSE Refs(includes[n][1])

RECURSIVE Closure(_, _)
Closure(S, k) ==
    IF k = 0 THEN S ELSE Closure(S \cup UNION {Includes(n) : n \in S}, k - 1)

\* The fragments the given content names, directly or through fragments.
Requested == Closure(Refs(given), Cardinality(Names))
CycleAhead == \E n \in Requested : n \in Closure(Includes(n), Cardinality(Names))
MissingAhead == \E n \in Requested : includes[n] = <<>>

\* m is an inclusion chain: it starts at a fragment the given content names and
\* each name is included by the fragment before it.
IsChain(m) ==
    /\ Len(m) >= 1
    /\ m[1] \in Refs(given)
    /\ \A k \in 1..(Len(m) - 1) : m[k + 1] \in Includes(m[k])

\* C17: a fragment requested while it is in its own inclusion chain, directly
\* or through other fragments, makes resolve_includes fail with the cycle error,
\* whose message is the whole chain from the first fragment included down to
\* and including the repeated name, and no content is returned. A call that
\* returns content met no cycle; where no fragment is missing, a cycle ahead
\* is the error raised.
C17_CycleDetection ==
    Resolved =>
        /\ CycleAhead => Result.status # "ok"
        /\ (CycleAhead /\ ~MissingAhead) => Result.status = "ValueError"
        /\ Result.status = "ValueError" =>
            LET m == Result.message
                chain == SubSeq(m, 1, Len(m) - 1)
            IN  /\ Result.text = <<>>
                /\ Len(m) >= 2
                /\ IsChain(m)
                /\ m[Len(m)] \in Range(chain)
                /\ \A i, j \in 1..Len(chain) : chain[i] = chain[j] => i = j

\* A cycle through two fragments, met after a line of text was kept.
C17_Witness ==
    /\ Resolved
    /\ given = <<TextLine("t2"), MarkerLine("a.md", "plain")>>
    /\ Result.status = "ValueError"
    /\ Result.message = <<"a.md", "b.md", "a.md">>
    /\ Result.reads = <<"a.md", "b.md">>

\* A directive as the specification words it: a line that holds only the
\* marker, blanks around it ignored.
IsDirective(line) == line[1] = "marker" /\ line[3] # "inline"
DirectiveRefs(lines) == {l[2] : l \in {x \in Range(lines) : IsDirective(x)}}

\* No cycle and no missing fragment in the inclusion chains of the given
\* content's directives.
ChainsSound ==
    \A n \in Closure(DirectiveRefs(given), Cardinality(Names)) :
        /\ includes[n] # <<>>
        /\ n \notin Closure(Includes(n), Cardinality(Names))

\* Every directive line replaced by its fragment's expansion, depth first,
\* the other lines kept.
RECURSIVE Expand(_)
Expand(lines) ==
    IF lines = <<>> THEN <<>>
    ELSE (IF IsDirective(Head(lines))
          THEN Expand(includes[Head(lines)[2]][1])
          ELSE <<Head(lines)>>) \o Expand(Tail(lines))

\* C18: where the inclusion chains have no cycle and no missing fragment,
\* resolve_includes returns the content with every directive line replaced, in
\* order of appearance, by the depth-first resolved content of its fragment and
\* every other line unchanged, so that no include directive is left in the
\* output at any depth.
C18_IncludeSubstitution ==
    (Resolved /\ ChainsSound) =>
        /\ Result.status = "ok"
        /\ Result.text = Expand(given)
        /\ \A i \in 1..Len(Result.text) : ~IsDirective(Result.text[i])

C20_MissingFragment ==
    Resolved =>
        /\ MissingAhead => Result.status # "ok"
        /\ (MissingAhead /\ ~CycleAhead) => Result.status = "FileNotFoundError"
        /\ Result.status = "FileNotFoundError" =>
            /\ Result.text = <<>>
            /\ Len(Result.message) = 1
            /\ Result.message[1] \in Requested
            /\ includes[Result.message[1]] = <<>>
            /\ \A i \in 1..Len(Result.reads) : Result.reads[i] # Result.message[1]

\* The missing fragment is named by a fragment, after text was kept.
C20_Witness ==
    /\ Resolved
    /\ given = <<TextLine("t2"), MarkerLine("a.md", "trailing")>>
    /\ includes["a.md"] = <<<<TextLine("t1"), MarkerLine("b.md", "plain")>>>>
    /\ includes["b.md"] = <<>>
    /\ Result.status = "FileNotFoundError"
    /\ Result.message = <<"b.md">>
    /\ Result.reads = <<"a.md">>

\* --------------------------------------------------------------------- build
Built == built # <<>>
Last == built[1]
BuildReturned == Built /\ Last.status = "returned"
BuildRaised == Built /\ Last.status # "returned"

\* The ordinary source files: under config-src, first segment not _includes.
HasSource(p) == p \in OrdinaryPaths /\ srcFiles[p] # <<>>
\* The output tree the run started from.
WasFile(p) == Last.before.files[p] # <<>>
IsFile(p) == outFiles[p] # <<>>

\* The probe was asked, and what it reported.
ProbeAsked == Last.probe # <<>>
ProbeReported ==
    IF ~ProbeAsked THEN {}
    ELSE IF Last.probe[1].rev_parse = "ok"
    THEN Last.probe[1].diff \cup Last.probe[1].others ELSE {}

\* C21: build is idempotent. A run of build that follows a run which returned
\* a verdict, with no source change in between, writes and removes no output
\* file, leaves the output tree as it was, and returns 0 when the probe reports
\* nothing unstaged.
C21_BuildIdempotent ==
    (BuildReturned /\ Last.rerun) =>
        /\ Last.written = {}
        /\ Last.removed = {}
        /\ outFiles = Last.before.files
        /\ outDirs = Last.before.dirs
        /\ ProbeReported = {} => Last.verdict = 0

\* The second run over a template with an include, in a repository with
\* nothing unstaged.
C21_Witness ==
    /\ BuildReturned
    /\ Last.rerun
    /\ srcFiles[<<"a.md">>] = <<<<MarkerLine("a.md", "plain")>>>>
    /\ outFiles[<<"a.md">>] = <<write_text(<<TextLine("t1")>>)>>
    /\ Last.log = <<<<"unchanged", <<"a.md">>>>>>
    /\ ProbeAsked
    /\ Last.probe[1].rev_parse = "ok"
    /\ Last.verdict = 0

\* Of the output files the run found, exactly those without a source are gone.
RemovedExactlyStale ==
    /\ \A p \in BuildPaths :
        WasFile(p) => ((p \in Last.removed /\ ~IsFile(p)) <=> ~HasSource(p))
    /\ Last.removed \subseteq {p \in BuildPaths : WasFile(p)}

\* C22 as stated: in a build that completes, an output file is deleted if and
\* only if its relative path is not that of a source file processed in that
\* build; no output file that has a source is deleted.
C22_RemovesExactlyStale == BuildReturned => RemovedExactlyStale

\* C22: in a build that finds the source directory and completes, an output
\* file is deleted if and only if its relative path is not that of a source
\* file processed in that build; no output file that has a source is deleted.
C22_RemovesExactlyStaleOfSources == (BuildReturned /\ srcDir) => RemovedExactlyStale

\* A stale file under two directories goes, with the directories; the file
\* with a source stays.
C22_Witness ==
    /\ BuildReturned
    /\ srcDir
    /\ WasFile(<<"a.md">>)
    /\ HasSource(<<"a.md">>)
    /\ IsFile(<<"a.md">>)
    /\ Last.removed = {<<"d", INCLUDES_DIR, "x.md">>}
    /\ Last.before.dirs = {<<"d">>, <<"d", INCLUDES_DIR>>}
    /\ outDirs = {}

\* The fully resolved content of the source file at p.
ResolvedText(p) == resolve_includes(srcFiles[p][1], includes, <<>>).text

\* C23 as stated: after any build that returns a verdict, every file of the
\* output tree has exactly one ordinary source file, at the same relative path,
\* and its content is that source's fully resolved content; every ordinary
\* source file has such an output file; no stale output file remains.
C23_OutputTreeInvariant ==
    BuildReturned =>
        \A p \in BuildPaths :
            /\ IsFile(p) =>
                /\ HasSource(p)
                /\ outFiles[p][1] = <<"lf", ResolvedText(p)>>
            /\ HasSource(p) => IsFile(p)

\* C23: after any build that finds the source directory and returns a verdict,
\* every file of the output tree has exactly one ordinary source file, at the
\* same relative path, and its text is that source's fully resolved content;
\* every ordinary source file has such an output file; no stale output file
\* remains. A file build wrote in this run holds the resolved content itself.
C23_OutputTreeMirrorsSources ==
    (BuildReturned /\ srcDir) =>
        \A p \in BuildPaths :
            /\ IsFile(p) =>
                /\ HasSource(p)
                /\ outFiles[p][1][2] = ResolvedText(p)
                /\ p \in Last.written => outFiles[p][1] = <<"lf", ResolvedText(p)>>
            /\ HasSource(p) => IsFile(p)

\* An output file with other line terminators is found up to date and kept,
\* next to one created from a template with an include and a stale one removed.
C23_Witness ==
    /\ BuildReturned
    /\ srcDir
    /\ srcFiles[<<"a.md">>] = <<<<TextLine("t1")>>>>
    /\ Last.before.files[<<"a.md">>] = <<<<"crlf", <<TextLine("t1")>>>>>>
    /\ outFiles[<<"a.md">>] = <<<<"crlf", <<TextLine("t1")>>>>>>
    /\ srcFiles[<<"d">>] = <<<<MarkerLine("a.md", "plain")>>>>
    /\ Last.written = {<<"d">>}
    /\ Last.removed = {<<INCLUDES_DIR, "a.md">>}
    /\ Last.verdict = 1

\* C24: build returns 1 when it wrote or removed an output file, and then the
\* staging probe is not consulted; otherwise it returns 1 when the probe
\* reports a modified-but-unstaged or untracked path under the output
\* directory and 0 when it reports none; outside version control the probe
\* reports none, so a build with no disk change returns 0.
C24_BuildVerdict ==
    BuildReturned =>
        /\ Last.verdict \in {0, 1}
        /\ (Last.written \cup Last.removed) # {} =>
            /\ Last.verdict = 1
            /\ ~ProbeAsked
        /\ (Last.written \cup Last.removed) = {} =>
            /\ Last.verdict = 1 <=> ProbeReported # {}
            /\ (ProbeAsked /\ Last.probe[1].rev_parse # "ok") => Last.verdict = 0
            /\ outFiles = Last.before.files

\* Nothing to write or remove, and an untracked file under config/.
C24_Witness ==
    /\ BuildReturned
    /\ srcDir
    /\ Last.log = <<<<"unchanged", <<"d">>>>>>
    /\ ProbeAsked
    /\ Last.probe[1].others = {<<"d">>}
    /\ Last.verdict = 1

\* C25: without the source directory build is a no-op: it returns 0, writes
\* and deletes nothing, leaves the output tree exactly as it was, and does not
\* consult the staging probe.
C25_NoSourceNoOp ==
    (Built /\ ~srcDir) =>
        /\ Last.status = "returned"
        /\ Last.verdict = 0
        /\ Last.written = {}
        /\ Last.removed = {}
        /\ outFiles = Last.before.files
        /\ outDirs = Last.before.dirs
        /\ ~ProbeAsked

\* An output tree with files and an empty directory, left alone.
C25_Witness ==
    /\ Built
    /\ ~srcDir
    /\ IsFile(<<"a.md">>)
    /\ IsFile(<<INCLUDES_DIR, "a.md">>)
    /\ outDirs = {<<INCLUDES_DIR>>, <<"d">>}
    /\ Last.verdict = 0
    /\ Last.log = <<<<"nothing to build", <<>>>>>>

\* No fragment in the output tree, and a source under a nested directory named
\* as the includes directory built like any other.
NoFragmentOutput ==
    /\ \A p \in BuildPaths : p[1] = INCLUDES_DIR => ~IsFile(p)
    /\ \A p \in OrdinaryPaths : (INCLUDES_DIR \in Range(p) /\ HasSource(p)) => IsFile(p)

\* C26 as stated: after any build that completes, the output tree holds no
\* file whose first path segment is the includes directory name, whatever the
\* source includes directory and the output tree held before; only the first
\* segment is tested, so a source under a nested directory of that name is an
\* ordinary file.
C26_FragmentsNeverOutput == BuildReturned => NoFragmentOutput

\* C26: after any build that finds the source directory and completes, the
\* output tree holds no file whose first path segment is the includes directory
\* name, whatever the source includes directory and the output tree held
\* before; only the first segment is tested, so a source under a nested
\* directory of that name is an ordinary file.
C26_FragmentsNeverOutputOfSources == (BuildReturned /\ srcDir) => NoFragmentOutput

\* Fragments in the source, a file of a fragment's name in the output that is
\* removed, and a template under d/_includes that is built.
C26_Witness ==
    /\ BuildReturned
    /\ srcDir
    /\ includes["a.md"] # <<>>
    /\ includes["b.md"] # <<>>
    /\ WasFile(<<INCLUDES_DIR, "a.md">>)
    /\ Last.removed = {<<INCLUDES_DIR, "a.md">>}
    /\ <<INCLUDES_DIR>> \notin outDirs
    /\ Last.written = {<<"d", INCLUDES_DIR, "x.md">>}

BuildRank(p) == CHOOSE i \in DOMAIN BuildPathTable : BuildPathTable[i] = p
\* The source files whose resolution raises, and the first of them in order.
BadSources ==
    {p \in OrdinaryPaths :
        HasSource(p) /\ resolve_includes(srcFiles[p][1], includes, <<>>).status # "ok"}
FirstBad == CHOOSE p \in BadSources : \A q \in BadSources : BuildRank(p) <= BuildRank(q)

\* C27: content errors are fatal and not rolled back. When resolving a source
\* raises a cycle or missing-fragment error, build returns no verdict and the
\* error is the run's outcome; no stale output file is deleted, the output
\* files of the failing source and of those that sort after it are as they
\* were, and the outputs of the sources before it are written.
C27_ContentErrorsFatal ==
    /\ (Built /\ srcDir /\ BadSources # {}) => BuildRaised
    /\ (Built /\ Last.status \in {"ValueError", "FileNotFoundError"}) =>
        /\ BadSources # {}
        /\ Last.verdict = -1
        /\ ~ProbeAsked
        /\ Last.status = resolve_includes(srcFiles[FirstBad][1], includes, <<>>).status
        /\ Last.removed = {}
        /\ \A p \in BuildPaths : WasFile(p) => IsFile(p)
        /\ \A p \in BuildPaths :
            BuildRank(p) >= BuildRank(FirstBad) => outFiles[p] = Last.before.files[p]
        /\ \A p \in OrdinaryPaths :
            (HasSource(p) /\ BuildRank(p) < BuildRank(FirstBad)) =>
                /\ IsFile(p)
                /\ outFiles[p][1][2] = ResolvedText(p)

\* The first source is written, the second one runs into a cycle, and the
\* stale file and the second one's old output stay.
C27_Witness ==
    /\ Built
    /\ Last.status = "ValueError"
    /\ Last.message = <<"a.md", "b.md", "b.md">>
    /\ Last.written = {<<"a.md">>}
    /\ Last.before.files[<<"a.md">>] = <<<<"lf", <<TextLine("t2")>>>>>>
    /\ outFiles[<<"a.md">>] = <<<<"lf", <<TextLine("t1")>>>>>>
    /\ FirstBad = <<"d">>
    /\ WasFile(<<"d">>)
    /\ IsFile(<<INCLUDES_DIR, "a.md">>)

\* ---------------------------------------------------------------- C28
\* What a dict says whatever the order its keys were inserted in.
RECURSIVE Logical(_)
Logical(value) ==
    IF value[1] = "s" THEN value
    ELSE <<"d", {<<value[2][i][1], Logical(value[2][i][2])>> : i \in DOMAIN value[2]}>>
Written == callResult[1]
\* The lines of a written text that open with a key.
KeyLines(text) == {i \in DOMAIN text : Len(text[i][2]) >= 2 /\ text[i][2][2] = ":"}
\* Two key lines of the same dict: equally deep, no shallower line between.
Siblings(text, i, j) ==
    /\ i < j
    /\ text[i][1] = text[j][1]
    /\ \A k \in i..j : text[k][1] >= text[i][1]
KeysSorted(text) ==
    \A i, j \in KeyLines(text) :
        Siblings(text, i, j) => KeyRank(text[i][2][1]) < KeyRank(text[j][2][1])
SameLogicalLock ==
    /\ callArgs.first.source_commit = callArgs.second.source_commit
    /\ Logical(Dict(callArgs.first.files)) = Logical(Dict(callArgs.second.files))

\* C28: two calls of write_lock with the same source commit and logically
\* equal files maps, whatever the insertion order of their keys, leave
\* byte-identical lock files; every lock file written has its keys sorted at
\* every level and ends with a newline.
C28_WriteLockDeterministic ==
    callResult # <<>> =>
        /\ SameLogicalLock => Written.first = Written.second
        /\ KeysSorted(Written.first.text) /\ Written.first.newline
        /\ KeysSorted(Written.second.text) /\ Written.second.newline

\* Two maps of two destinations, logically equal, inserted in opposite
\* orders and with the keys of an entry in opposite orders, have been written.
C28_Witness ==
    /\ callResult # <<>>
    /\ SameLogicalLock
    /\ Len(callArgs.first.files) = 2
    /\ callArgs.first.files[1][1] = callArgs.second.files[2][1]
    /\ callArgs.first.files[1][2] # callArgs.second.files[2][2]
    /\ Written.first = Written.second

\* ---------------------------------------------------------------- C29
\* The run started without a lock file.
FirstSync == RanSync /\ Pre.lock = <<>>

\* C29: a run that finds no lock file does not fail; it skips no destination
\* as locally modified, copies every destination of the mapping from its
\* source whatever the target held there, and removes nothing: every other
\* path and every directory of the target is as it was.
C29_FirstSyncUntracked ==
    FirstSync =>
        /\ exitCode = 0
        /\ lock # <<>>
        /\ Pre.dirs \subseteq dirs
        /\ \A p \in Paths :
               /\ ~Printed(<<"SKIPPING", p>>)
               /\ ~Printed(<<"removed", p>>)
               /\ p \in DOMAIN Mapping =>
                      /\ target[p] = Source(p)
                      /\ Printed(<<"synced", p>>)
               /\ p \notin DOMAIN Mapping => target[p] = Pre.target[p]

\* A first run found a file of the user's at a destination of the mapping,
\* different from the source, and another file outside the mapping.
C29_Witness ==
    /\ FirstSync
    /\ \E p \in DOMAIN Mapping : PreExists(p) /\ Pre.target[p] # Source(p)
    /\ \E q \in Paths \ DOMAIN Mapping : PreExists(q) /\ target[q] = Pre.target[q]

\* ---------------------------------------------------------------- C30
Synced == callResult # <<>> /\ callResult[1].printed = "synced"
DestAfter == callResult[1].target[DestRel]

\* C30: a destination sync has written is a plain file, never a symbolic
\* link, and holds the content of the source, which for a source that is a
\* link is the content of the file the link names.
C30_DestinationPlainFile ==
    Synced =>
        /\ DestAfter.kind = "file"
        /\ DestAfter.content =
               callArgs.briefcase[FollowLink(callArgs.briefcase, SrcPath)].content

\* ---------------------------------------------------------------- C31
\* The run reached the briefcase and found a mapping that is not empty.
RanFull == RanSync /\ DOMAIN Mapping # {}

\* C31: after a completed run with a mapping that is not empty, every path of
\* the lock record written has a file in the target, and the entry's sha256
\* is the hash of that file's content: the source's for a copied destination,
\* the local content's for a skipped one.
C31_LockMatchesTarget ==
    RanFull =>
        \A p \in DOMAIN LockFiles :
            /\ target[p] # NoFile
            /\ LockFiles[p].sha256 = hash_file(target[p])

\* A run skipped one destination, whose entry holds the hash of the local
\* content, and copied another over a different file.
C31_Witness ==
    /\ RanFull
    /\ \E p, q \in DOMAIN LockFiles :
           /\ PreModified(p)
           /\ Source(p) # target[p]
           /\ LockFiles[p].sha256 = hash_file(Pre.target[p])
           /\ PreExists(q)
           /\ Pre.target[q] # Source(q)
           /\ target[q] = Source(q)
           /\ LockFiles[q].sha256 = hash_file(Source(q))

\* ---------------------------------------------------------------- C32
\* The layer whose file wins destination p: the project's when it has one.
Winner(p) ==
    IF config[PROJECT_NAME][p] # NoFile THEN PROJECT_NAME ELSE DEFAULT_SHARED_FOLDER

\* C32: after a run that reached the briefcase, the paths of the lock record
\* written are exactly the destinations of the run's merged mapping (copied
\* and skipped ones have an entry, removed ones have none), and the source of
\* each entry is config/<layer>/<path> for the layer whose file won.
C32_LockLifecycle ==
    RanSync =>
        /\ lock # <<>>
        /\ DOMAIN LockFiles = {p \in Paths : \E l \in Layers : config[l][p] # NoFile}
        /\ \A p \in DOMAIN LockFiles :
               LockFiles[p].source = <<CONFIG_DIR, Winner(p), p>>

\* A run wrote an entry for a destination it copied and one for a destination
\* it skipped, and dropped the entry of a destination it removed.
C32_Witness ==
    /\ RanSync
    /\ \E p, q \in DOMAIN LockFiles :
           /\ Printed(<<"synced", p>>)
           /\ Printed(<<"SKIPPING", q>>)
           /\ LockFiles[q].source = <<CONFIG_DIR, DEFAULT_SHARED_FOLDER, q>>
    /\ \E p \in DOMAIN PreLockFiles :
           /\ p \notin DOMAIN LockFiles
           /\ Printed(<<"removed", p>>)

\* ---------------------------------------------------------------- C33
\* C33: when no managed destination is edited in the target between runs
\* (SpecMirror), after each run that reached the briefcase the target holds
\* at every path of the merged mapping a file with the content of the
\* mapping's source, and no file at a path of the previous lock record that
\* is not in the mapping.
C33_Mirror ==
    RanSync =>
        /\ \A p \in DOMAIN Mapping : target[p] = Source(p)
        /\ \A p \in DOMAIN PreLockFiles \ DOMAIN Mapping : target[p] = NoFile

\* A run after an earlier run brought a managed file up to its changed
\* source and deleted another whose source had gone.
C33_Witness ==
    /\ RanSync
    /\ \E p \in DOMAIN Mapping :
           /\ PreLocked(p)
           /\ PreExists(p)
           /\ Pre.target[p] # Source(p)
           /\ target[p] = Source(p)
    /\ \E q \in DOMAIN PreLockFiles \ DOMAIN Mapping :
           /\ PreExists(q)
           /\ target[q] = NoFile

\* ---------------------------------------------------------------- C34
\* C34: a destination of the previous lock record whose source has left the
\* mapping is deleted by the run, and reported as removed, also when its
\* content was edited after the last sync (its hash is not the locked one);
\* only destinations of the mapping are ever skipped as locally modified.
C34_CleanupUnprotected ==
    RanSync =>
        /\ \A p \in DOMAIN PreLockFiles \ DOMAIN Mapping :
               PreModified(p) =>
                   /\ target[p] = NoFile
                   /\ Printed(<<"removed", p>>)
        /\ \A p \in Paths : Printed(<<"SKIPPING", p>>) => p \in DOMAIN Mapping

\* A run deleted a file the user had edited since the last sync, its source
\* having left the briefcase.
C34_Witness ==
    /\ RanSync
    /\ \E p \in DOMAIN PreLockFiles \ DOMAIN Mapping :
           /\ PreModified(p)
           /\ p \in Pre.userEdited
           /\ target[p] = NoFile
           /\ Printed(<<"removed", p>>)

\* ---------------------------------------------------------------- C35
\* C35: a run of sync creates, overwrites or deletes no file of the target
\* other than the destinations of the merged mapping and the paths of the
\* previous lock record (and .gitignore and the lock file): every other file
\* keeps its content, and the briefcase is left as it is. Here the mapping and
\* the lock name DestRel alone.
C35_SyncFrame ==
    callResult # <<>> =>
        \A p \in DOMAIN callArgs.target \ {DestRel} :
            callResult[1].target[p] = callArgs.target[p]

\* ---------------------------------------------------------------- C36
\* C36: every destination of the mapping at which the target holds no file
\* when the run starts, with a lock entry or without one, holds the content
\* of its source after the run; its parent directories exist, its lock entry
\* holds the source's hash, and the run prints "synced" for it and no
\* "SKIPPING".
C36_MissingRecreated ==
    RanSync =>
        \A p \in DOMAIN Mapping :
            ~PreExists(p) =>
                /\ target[p] = Source(p)
                /\ Range(Parents(p)) \subseteq dirs
                /\ p \in DOMAIN LockFiles
                /\ LockFiles[p].sha256 = hash_file(Source(p))
                /\ Printed(<<"synced", p>>)
                /\ ~Printed(<<"SKIPPING", p>>)

\* A run recreated a managed file the user had deleted, and created a new
\* destination together with a parent directory.
C36_Witness ==
    /\ RanSync
    /\ \E p, q \in DOMAIN Mapping :
           /\ PreLocked(p)
           /\ ~PreExists(p)
           /\ target[p] = Source(p)
           /\ ~PreLocked(q)
           /\ ~PreExists(q)
           /\ ~(Range(Parents(q)) \subseteq Pre.dirs)
           /\ target[q] = Source(q)

\* ---------------------------------------------------------------- C37
\* Every matched line replaced by the content its fragment resolves to on its
\* own, the other lines kept (defined where no chain has a cycle or a missing
\* fragment).
RECURSIVE Replaced(_)
Replaced(lines) ==
    IF lines = <<>> THEN <<>>
    ELSE (IF INCLUDE_RE(Head(lines))
          THEN Replaced(includes[Head(lines)[2]][1])
          ELSE <<Head(lines)>>) \o Replaced(Tail(lines))

\* C37: resolve_includes raises the cycle error only when the name requested
\* is among its own ancestors in an inclusion chain that starts at the given
\* content. Where no chain repeats a name (and no fragment is missing), the
\* call returns, however often a fragment is referenced in one file or in
\* unrelated branches, each reference replaced by the same resolved content.
C37_NoFalseCycle ==
    Resolved =>
        /\ Result.status = "ValueError" =>
               LET m == Result.message
               IN  /\ Len(m) >= 2
                   /\ IsChain(m)
                   /\ m[Len(m)] \in Range(SubSeq(m, 1, Len(m) - 1))
                   /\ m[Len(m)] \in Closure(Includes(m[Len(m)]), Cardinality(Names))
        /\ (~CycleAhead /\ ~MissingAhead) =>
               /\ Result.status = "ok"
               /\ Result.text = Replaced(given)

\* A diamond: b.md is named twice by a.md and once more by the given content
\* after a.md, and all three references are replaced by its text.
C37_Witness ==
    /\ Resolved
    /\ given = <<MarkerLine("a.md", "plain"), MarkerLine("b.md", "plain")>>
    /\ includes["a.md"] = <<<<MarkerLine("b.md", "plain"), MarkerLine("b.md", "plain")>>>>
    /\ includes["b.md"] = <<<<TextLine("t1")>>>>
    /\ Result.status = "ok"
    /\ Result.text = <<TextLine("t1"), TextLine("t1"), TextLine("t1")>>
    /\ Result.reads = <<"a.md", "b.md", "b.md", "b.md">>

\* ---------------------------------------------------------------- C38
Finished == callResult # <<>> /\ Machine.status # "running"
NoRepeat(chain) == \A i, j \in DOMAIN chain : chain[i] = chain[j] => i = j

\* C38: the call of resolve_includes comes to an end, returning or raising
\* the cycle or the not-found error (with the outcome of the function); all
\* the while the inclusion chain holds no fragment name twice and is no longer
\* than the number of distinct fragment names referenced from the content.
C38_Terminates ==
    /\ [](callResult # <<>> =>
            /\ NoRepeat(Chain)
            /\ Len(Chain) <= Cardinality(Requested)
            /\ Finished =>
                   LET r == resolve_includes(given, includes, <<>>)
                   IN  /\ Machine.status = r.status
                       /\ Machine.text = r.text
                       /\ Machine.message = r.message)
    /\ <>Finished

\* A call is two fragments deep, the second named by the first, with lines of
\* both still to go through.
C38_Witness ==
    /\ Running
    /\ Chain = <<"a.md", "b.md">>
    /\ Machine.stack[2].todo # <<>>
    /\ Top.todo # <<>>
    /\ INCLUDE_RE(Head(Top.todo))

\* ---------------------------------------------------------------- C39
\* Directory d of the target holds a file or a directory.
HoldsFile(d) == \E p \in Paths : d \in Range(Parents(p)) /\ target[p] # NoFile
HoldsDir(d) == \E d2 \in dirs : DirInside(d2, d)

\* C39: after a run, an ancestor directory of a path the run dropped from the
\* managed set is gone exactly when nothing is left in it, so that the walk
\* upward stopped at the first directory that was not empty; no directory
\* that still holds a file has been removed.
C39_PruneEmptyParents ==
    RanSync =>
        /\ \A p \in DOMAIN PreLockFiles \ DOMAIN Mapping :
               \A d \in Range(Parents(p)) :
                   d \in dirs <=> (HoldsFile(d) \/ HoldsDir(d))
        /\ \A d \in Dirs : HoldsFile(d) => d \in dirs

\* A run removed .claude/commands/review.md and its directory, and stopped
\* at .claude, which still holds settings.json.
C39_Witness ==
    /\ RanSync
    /\ ".claude/commands/review.md" \in DOMAIN PreLockFiles \ DOMAIN Mapping
    /\ PreExists(".claude/commands/review.md")
    /\ ".claude/commands" \in Pre.dirs
    /\ ".claude/commands" \notin dirs
    /\ ".claude" \in dirs
    /\ target[".claude/settings.json"] # NoFile

====
